---- MODULE Spec2Model ----
(***************************************************************************)
(* A model of the scoring, statistics, optimisation and lookup code of     *)
(* prompt-engineering-lab.                                                 *)
(*                                                                         *)
(* Texts are sequences of one-character strings.  Real numbers that the    *)
(* code derives by division of integers are exact rationals [n, d] in      *)
(* lowest terms with d > 0.                                                *)
(***************************************************************************)
EXTENDS Integers, Sequences, FiniteSets, TLC

VARIABLES
    candidate,          \* RougeScorer: the candidate text of the call
    reference,          \* RougeScorer: the reference text of the call
    rouge_op,           \* RougeScorer: which method has returned ("none" before)
    rouge_score,        \* RougeScorer: the RougeScore that method returned
    significance_level, \* ABTester.significance_level, in millionths
    ab_op,              \* ABTester: "none" before a call, then the method called
    ab_args,            \* ABTester: the arguments of the call
    ab_result,          \* ABTester: what the call returned or raised
    opt_scorer,         \* PromptOptimizer: self.scorer
    opt_pc,             \* PromptOptimizer: "idle", "loop" inside a call, "done"
    opt_args,           \* PromptOptimizer: the method called and its arguments
    opt_i,              \* PromptOptimizer: the loop variable i
    opt_history,        \* PromptOptimizer: history
    opt_best_template,  \* PromptOptimizer: best_template
    opt_best_score,     \* PromptOptimizer: best_score
    opt_initial_score,  \* PromptOptimizer: initial_score
    opt_scorer_calls,   \* PromptOptimizer: how often the scorer has been called
    opt_result,         \* PromptOptimizer: what the call returned or raised
    ev_output,          \* PromptEvaluator: the output argument
    ev_context,         \* PromptEvaluator: the context argument
    ev_op,              \* PromptEvaluator: "none" before a call, then the method called
    ev_score,           \* PromptEvaluator: the score returned
    sim_candidate,      \* similarity: the candidate or output argument
    sim_reference,      \* similarity: the reference or query argument
    sim_sklearn,        \* similarity: whether scikit-learn can be imported
    sim_op,             \* similarity: "none" before a call, then the method called
    sim_result,         \* similarity: what the call returned or raised
    cp_output,          \* completeness: the output argument
    cp_topics,          \* completeness: the expected_topics argument
    cp_op,              \* completeness: "none" before the call, then "completeness"
    cp_score,           \* completeness: the score returned
    rn_object,          \* rendering: the PromptTemplate or PromptPattern called
    rn_kwargs,          \* rendering: the keyword arguments of the call, in order
    rn_op,              \* rendering: "none" before a call, then the method called
    rn_result,          \* rendering: what the call returned or raised
    el_args,            \* PromptEvaluator.evaluate: the arguments of the call
    el_op,              \* PromptEvaluator.evaluate: "none" before the call
    el_result,          \* PromptEvaluator.evaluate: the EvaluationResult returned
    ch_args,            \* PromptChain.run: the chain's templates and the initial_vars passed
    ch_initial_vars,    \* PromptChain.run: the caller's initial_vars mapping
    ch_pc,              \* PromptChain.run: "idle", "loop" inside the call, "done"
    ch_i,               \* PromptChain.run: the loop variable i
    ch_current_vars,    \* PromptChain.run: current_vars
    ch_results,         \* PromptChain.run: results
    ch_result,          \* PromptChain.run: what the call returned or raised
    bm_args,            \* BenchmarkRunner.run_comparison: patterns and tasks
    bm_op,              \* BenchmarkRunner: "none" before the call
    bm_report,          \* BenchmarkRunner: the BenchmarkReport returned
    run_scorer,         \* ABTestRunner: self.scorer
    run_args,           \* ABTestRunner.run: template_a, template_b, inputs
    run_calls,          \* ABTestRunner: the arguments the scorer was called with
    run_op,             \* ABTestRunner: "none" before the call, then "run"
    run_result,         \* ABTestRunner: what run returned or raised
    vm_versions,        \* PromptVersionManager: self._versions
    vm_order,           \* PromptVersionManager: self._order
    vm_active_id,       \* PromptVersionManager: self._active_id
    pl_patterns,        \* PatternLibrary: self._patterns
    cr_categories,      \* CategoryRegistry: self._categories
    tr_templates,       \* TemplateRegistry: self._templates
    lk_call,            \* the last call on a store: object, method, arguments
    lk_result           \* what that call returned or raised

rougeVars == <<candidate, reference, rouge_op, rouge_score>>

abVars == <<significance_level, ab_op, ab_args, ab_result>>

optLocals == <<opt_i, opt_history, opt_best_template, opt_best_score,
               opt_initial_score, opt_scorer_calls>>

optVars == <<opt_scorer, opt_pc, opt_args, opt_i, opt_history, opt_best_template,
             opt_best_score, opt_initial_score, opt_scorer_calls, opt_result>>

simVars == <<sim_candidate, sim_reference, sim_sklearn, sim_op, sim_result>>

cpVars == <<cp_output, cp_topics, cp_op, cp_score>>

evVars == <<ev_output, ev_context, ev_op, ev_score,
            sim_candidate, sim_reference, sim_sklearn, sim_op, sim_result,
            cp_output, cp_topics, cp_op, cp_score>>

rnVars == <<rn_object, rn_kwargs, rn_op, rn_result>>

elVars == <<el_args, el_op, el_result>>

storeVars == <<vm_versions, vm_order, vm_active_id, pl_patterns, cr_categories,
               tr_templates>>

chVars == <<ch_args, ch_initial_vars, ch_pc, ch_i, ch_current_vars, ch_results,
           ch_result>>

bmVars == <<bm_args, bm_op, bm_report>>

runVars == <<run_scorer, run_args, run_calls, run_op, run_result>>

lookupVars == <<vm_versions, vm_order, vm_active_id, pl_patterns, cr_categories,
                tr_templates, lk_call, lk_result>>

vars == <<candidate, reference, rouge_op, rouge_score,
          significance_level, ab_op, ab_args, ab_result,
          opt_scorer, opt_pc, opt_args, opt_i, opt_history, opt_best_template,
          opt_best_score, opt_initial_score, opt_scorer_calls, opt_result,
          ev_output, ev_context, ev_op, ev_score,
          sim_candidate, sim_reference, sim_sklearn, sim_op, sim_result,
          cp_output, cp_topics, cp_op, cp_score,
          rn_object, rn_kwargs, rn_op, rn_result,
          el_args, el_op, el_result,
          ch_args, ch_initial_vars, ch_pc, ch_i, ch_current_vars, ch_results,
          ch_result, bm_args, bm_op, bm_report,
          run_scorer, run_args, run_calls, run_op, run_result,
          vm_versions, vm_order, vm_active_id, pl_patterns, cr_categories,
          tr_templates, lk_call, lk_result>>

----------------------------------------------------------------------------
(* Bounds *)

\* Longest enumerated text, in characters.
MaxTextLen == 5

\* Longest enumerated list of expected topics.
MaxTopics == 2

\* Longest score sample handed to ABTester.compare.
MaxSamples == 3

\* Largest n_iterations handed to PromptOptimizer.
MaxIterations == 3

\* Largest candidate pool handed to random_search.
MaxPool == 2

\* Most words in an enumerated text handed to PromptEvaluator.
MaxEvalWords == 2

\* Most create_version calls on one PromptVersionManager.
MaxVersions == 2

\* Most pieces (a placeholder, a brace or a letter) in an enumerated template.
MaxPieces == 3

\* Most templates in a PromptChain.
MaxChain == 3

----------------------------------------------------------------------------
(* Exact rational arithmetic *)

Abs(x) == IF x < 0 THEN -x ELSE x

Max(x, y) == IF x >= y THEN x ELSE y

Min(x, y) == IF x <= y THEN x ELSE y

RECURSIVE GCD(_, _)
GCD(x, y) == IF y = 0 THEN x ELSE GCD(y, x % y)

Rat(n, d) ==
    LET g == GCD(Abs(n), Abs(d))
        s == IF d < 0 THEN -1 ELSE 1
    IN  [n |-> (s * n) \div g, d |-> (s * d) \div g]

RatZero == [n |-> 0, d |-> 1]

RatOne == [n |-> 1, d |-> 1]

RatAdd(p, q) == Rat(p.n * q.d + q.n * p.d, p.d * q.d)

RatMul(p, q) == Rat(p.n * q.n, p.d * q.d)

RatDiv(p, q) == Rat(p.n * q.d, p.d * q.n)

RatLess(p, q) == p.n * q.d < q.n * p.d

----------------------------------------------------------------------------
(* Text primitives: str.lower(), str.split() *)

Uppers == <<"A", "B", "C", "D", "E", "F", "G", "H", "I", "J", "K", "L", "M",
            "N", "O", "P", "Q", "R", "S", "T", "U", "V", "W", "X", "Y", "Z">>

Lowers == <<"a", "b", "c", "d", "e", "f", "g", "h", "i", "j", "k", "l", "m",
            "n", "o", "p", "q", "r", "s", "t", "u", "v", "w", "x", "y", "z">>

IsUpperChar(c) == \E k \in DOMAIN Uppers : Uppers[k] = c

IsLowerChar(c) == \E k \in DOMAIN Lowers : Lowers[k] = c

LowerChar(c) ==
    IF IsUpperChar(c) THEN Lowers[CHOOSE k \in DOMAIN Uppers : Uppers[k] = c] ELSE c

Lower(text) == [k \in 1..Len(text) |-> LowerChar(text[k])]

IsSpace(c) == c \in {" ", "\t", "\n"}

\* str.split() with no separator: the maximal runs of non-whitespace.
RECURSIVE SplitFrom(_, _, _, _)
SplitFrom(text, k, cur, acc) ==
    IF k > Len(text)
    THEN IF cur = <<>> THEN acc ELSE Append(acc, cur)
    ELSE IF IsSpace(text[k])
         THEN SplitFrom(text, k + 1, <<>>, IF cur = <<>> THEN acc ELSE Append(acc, cur))
         ELSE SplitFrom(text, k + 1, Append(cur, text[k]), acc)

Split(text) == SplitFrom(text, 1, <<>>, <<>>)

Range(s) == {s[k] : k \in DOMAIN s}

UpperChar(c) ==
    IF IsLowerChar(c) THEN Uppers[CHOOSE k \in DOMAIN Lowers : Lowers[k] = c] ELSE c

Upper(text) == [k \in 1..Len(text) |-> UpperChar(text[k])]

\* str.isupper(): some cased character, and no lowercase one
IsUpper(text) ==
    /\ \E k \in DOMAIN text : IsUpperChar(text[k])
    /\ ~\E k \in DOMAIN text : IsLowerChar(text[k])

\* sep.join(parts)
RECURSIVE Join(_, _)
Join(parts, sep) ==
    IF parts = <<>> THEN <<>>
    ELSE IF Len(parts) = 1 THEN parts[1]
    ELSE parts[1] \o sep \o Join(Tail(parts), sep)

\* str.split(sep) with a separator: the pieces between its occurrences,
\* empty pieces included.
RECURSIVE SplitOnFrom(_, _, _, _, _)
SplitOnFrom(text, sep, k, cur, acc) ==
    IF k > Len(text) THEN Append(acc, cur)
    ELSE IF k + Len(sep) - 1 <= Len(text) /\ SubSeq(text, k, k + Len(sep) - 1) = sep
         THEN SplitOnFrom(text, sep, k + Len(sep), <<>>, Append(acc, cur))
         ELSE SplitOnFrom(text, sep, k + 1, Append(cur, text[k]), acc)

SplitOn(text, sep) == SplitOnFrom(text, sep, 1, <<>>, <<>>)

Digits == {"0", "1", "2", "3", "4", "5", "6", "7", "8", "9"}

\* the characters the regular expression \w matches
IsWordChar(c) == IsUpperChar(c) \/ IsLowerChar(c) \/ c \in Digits \/ c = "_"

\* re.findall(r"\b\w+\b", text): the maximal runs of word characters
RECURSIVE WordRunsFrom(_, _, _, _)
WordRunsFrom(text, k, cur, acc) ==
    IF k > Len(text)
    THEN IF cur = <<>> THEN acc ELSE Append(acc, cur)
    ELSE IF IsWordChar(text[k])
         THEN WordRunsFrom(text, k + 1, Append(cur, text[k]), acc)
         ELSE WordRunsFrom(text, k + 1, <<>>, IF cur = <<>> THEN acc ELSE Append(acc, cur))

WordRuns(text) == WordRunsFrom(text, 1, <<>>, <<>>)

\* text.strip() is empty
IsBlank(text) == \A k \in DOMAIN text : IsSpace(text[k])

\* The characters of the texts in code point order.
CodePoints ==
    <<"\t", "\n", " ", "*", ",", ".", "0", "1", "2", "3", "4", "5", "6", "7",
      "8", "9", ":">> \o Uppers \o <<"_">> \o Lowers \o <<"{", "}">>

Ord(c) == CHOOSE k \in DOMAIN CodePoints : CodePoints[k] = c

\* a < b for two strings, as Python compares them
RECURSIVE StrLess(_, _)
StrLess(a, b) ==
    IF b = <<>> THEN FALSE
    ELSE IF a = <<>> THEN TRUE
    ELSE IF Head(a) = Head(b) THEN StrLess(Tail(a), Tail(b))
    ELSE Ord(Head(a)) < Ord(Head(b))

\* sorted(S) for a set S of strings
RECURSIVE Sorted(_)
Sorted(S) ==
    IF S = {} THEN <<>>
    ELSE LET least == CHOOSE x \in S : \A y \in S : x = y \/ StrLess(x, y)
         IN  <<least>> \o Sorted(S \ {least})

\* every order random.shuffle can leave a list in
Shuffles(s) ==
    LET n == Len(s)
        orders == {p \in [1..n -> 1..n] : \A i, j \in 1..n : p[i] = p[j] => i = j}
    IN  {[k \in 1..n |-> s[p[k]]] : p \in orders}

----------------------------------------------------------------------------
(* prompt_engineering_lab/evaluator.py: tokenizer, n-grams, LCS *)

_tokenize(text) == Split(Lower(text))

\* A plausible slip: range(len(tokens) - n), which drops the last n-gram.
NgramsOffByOne(tokens, n) ==
    IF Len(tokens) <= n THEN <<>>
    ELSE [i \in 1..(Len(tokens) - n) |-> SubSeq(tokens, i, i + n - 1)]

_ngrams(tokens, n) ==
    IF Len(tokens) < n THEN <<>>
    ELSE [i \in 1..(Len(tokens) - n + 1) |-> SubSeq(tokens, i, i + n - 1)]

\* Python dict as a function with a finite domain.
EmptyDict == [x \in {} |-> 0]

DictGet(d, k, default) == IF k \in DOMAIN d THEN d[k] ELSE default

DictSet(d, k, v) == [x \in (DOMAIN d) \cup {k} |-> IF x = k THEN v ELSE d[x]]

\* for ng in ngrams: counts[ng] = counts.get(ng, 0) + 1
RECURSIVE CountNgrams(_, _, _)
CountNgrams(ngrams, k, counts) ==
    IF k > Len(ngrams) THEN counts
    ELSE CountNgrams(ngrams, k + 1,
                     DictSet(counts, ngrams[k], DictGet(counts, ngrams[k], 0) + 1))

\* A plausible slip: count each shared n-gram once, as a set intersection.
OverlapDistinct(cand_counts, ref_counts, keys) ==
    Cardinality(keys \cap DOMAIN ref_counts)

\* A plausible slip: credit every candidate occurrence of an n-gram the
\* reference holds, without the min() cap.
RECURSIVE OverlapUncapped(_, _, _)
OverlapUncapped(cand_counts, ref_counts, keys) ==
    IF keys = {} THEN 0
    ELSE LET ng == CHOOSE x \in keys : TRUE
         IN  (IF ng \in DOMAIN ref_counts THEN cand_counts[ng] ELSE 0)
             + OverlapUncapped(cand_counts, ref_counts, keys \ {ng})

\* for ng, count in cand_counts.items(): overlap += min(count, ref_counts.get(ng, 0))
RECURSIVE Overlap(_, _, _)
Overlap(cand_counts, ref_counts, keys) ==
    IF keys = {} THEN 0
    ELSE LET ng == CHOOSE x \in keys : TRUE
         IN  Min(cand_counts[ng], DictGet(ref_counts, ng, 0))
             + Overlap(cand_counts, ref_counts, keys \ {ng})

ZeroScore == [precision |-> RatZero, recall |-> RatZero, f1 |-> RatZero]

\* f1 = (2 * precision * recall / (precision + recall)) if (precision + recall) > 0 else 0.0
F1(precision, recall) ==
    IF RatLess(RatZero, RatAdd(precision, recall))
    THEN RatDiv(RatMul(RatMul(Rat(2, 1), precision), recall), RatAdd(precision, recall))
    ELSE RatZero

_ngram_score(cand, ref, n) ==
    LET cand_tokens == _tokenize(cand)
        ref_tokens == _tokenize(ref)
        cand_ngrams == _ngrams(cand_tokens, n)
        ref_ngrams == _ngrams(ref_tokens, n)
    IN  IF cand_tokens = <<>> \/ ref_tokens = <<>> THEN ZeroScore
        ELSE IF cand_ngrams = <<>> \/ ref_ngrams = <<>> THEN ZeroScore
        ELSE LET ref_counts == CountNgrams(ref_ngrams, 1, EmptyDict)
                 cand_counts == CountNgrams(cand_ngrams, 1, EmptyDict)
                 overlap == Overlap(cand_counts, ref_counts, DOMAIN cand_counts)
                 precision == Rat(overlap, Len(cand_ngrams))
                 recall == Rat(overlap, Len(ref_ngrams))
             IN  [precision |-> precision, recall |-> recall,
                  f1 |-> F1(precision, recall)]

rouge1(cand, ref) == _ngram_score(cand, ref, 1)

rouge2(cand, ref) == _ngram_score(cand, ref, 2)

\* A plausible slip: on a mismatch only the cell above is consulted.
RECURSIVE LcsFillNoLeft(_, _, _, _, _)
LcsFillNoLeft(a, b, i, j, dp) ==
    IF i > Len(a) THEN dp
    ELSE IF j > Len(b) THEN LcsFillNoLeft(a, b, i + 1, 1, dp)
    ELSE LcsFillNoLeft(a, b, i, j + 1,
                 [dp EXCEPT ![i][j] =
                     IF a[i] = b[j] THEN dp[i - 1][j - 1] + 1
                     ELSE dp[i - 1][j]])

\* The DP table as a function [0..m -> [0..n -> Nat]], filled row by row.
RECURSIVE LcsFill(_, _, _, _, _)
LcsFill(a, b, i, j, dp) ==
    IF i > Len(a) THEN dp
    ELSE IF j > Len(b) THEN LcsFill(a, b, i + 1, 1, dp)
    ELSE LcsFill(a, b, i, j + 1,
                 [dp EXCEPT ![i][j] =
                     IF a[i] = b[j] THEN dp[i - 1][j - 1] + 1
                     ELSE Max(dp[i - 1][j], dp[i][j - 1])])

\* A plausible slip: the tokens of a that occur anywhere in b are counted,
\* whatever their order.
LcsLengthCommonTokens(a, b) ==
    Cardinality({i \in DOMAIN a : \E j \in DOMAIN b : a[i] = b[j]})

\* _lcs_length
_lcs_length(a, b) ==
    LET m == Len(a)
        n == Len(b)
    IN  IF m = 0 \/ n = 0 THEN 0
        ELSE LcsFill(a, b, 1, 1, [i \in 0..m |-> [j \in 0..n |-> 0]])[m][n]

\* A plausible slip: recall divided by the candidate's length.
RougeLRecallByCandidate(cand, ref) ==
    LET cand_tokens == _tokenize(cand)
        ref_tokens == _tokenize(ref)
    IN  IF cand_tokens = <<>> \/ ref_tokens = <<>> THEN ZeroScore
        ELSE LET lcs == _lcs_length(cand_tokens, ref_tokens)
                 precision == Rat(lcs, Len(cand_tokens))
                 recall == Rat(lcs, Len(cand_tokens))
             IN  [precision |-> precision, recall |-> recall,
                  f1 |-> F1(precision, recall)]

rouge_l(cand, ref) ==
    LET cand_tokens == _tokenize(cand)
        ref_tokens == _tokenize(ref)
    IN  IF cand_tokens = <<>> \/ ref_tokens = <<>> THEN ZeroScore
        ELSE LET lcs == _lcs_length(cand_tokens, ref_tokens)
                 precision == Rat(lcs, Len(cand_tokens))
                 recall == Rat(lcs, Len(ref_tokens))
             IN  [precision |-> precision, recall |-> recall,
                  f1 |-> F1(precision, recall)]

----------------------------------------------------------------------------
(* Fixed-point arithmetic for the floating-point code of ABTester          *)
(*                                                                         *)
(* A score is an integer number of tenths.  Means and standard deviations  *)
(* are integers of ten-thousandths (the code rounds them to four places),  *)
(* the z-score and the p-value are millionths (the code rounds the p-value *)
(* to six places) and are reported in ten-thousandths, and the normal-tail *)
(* polynomial is evaluated in units of 10^-8.                              *)
(***************************************************************************)

E4 == 100 * 100

E6 == 1000 * 1000

E8 == E4 * E4

Sign(x) == IF x < 0 THEN -1 ELSE 1

\* a * b / 10^8 rounded down, for 0 <= a, b < 2^31 with a product below
\* 2^31 * 10^8: the schoolbook product of the halves of a and b in base 10^4,
\* so that nothing larger than 2^31 is formed.
MulShift8(a, b) ==
    LET a1 == a \div E4
        a0 == a % E4
        b1 == b \div E4
        b0 == b % E4
    IN  a1 * b1 + (a1 * b0 + a0 * b1 + (a0 * b0) \div E4) \div E4

\* signed product of two numbers in units of 10^-8
Mul8(a, b) == Sign(a) * Sign(b) * MulShift8(Abs(a), Abs(b))

\* [q, r] with (q0 * c + r0) * f1 * f2 * ... = q * c + r and 0 <= r < c, one
\* small factor at a time so that r * f stays below 2^31
RECURSIVE ScaleDivMod(_, _, _, _)
ScaleDivMod(q, r, c, factors) ==
    IF factors = <<>> THEN [q |-> q, r |-> r]
    ELSE LET f == Head(factors)
         IN  ScaleDivMod(q * f + (r * f) \div c, (r * f) % c, c, Tail(factors))

\* 10^4 and 10^8 as products of factors small enough for ScaleDivMod
FactorsE4 == <<100, 100>>

FactorsE8 == <<5, 5, 5, 5, 5, 5, 5, 5, 4, 4, 4, 4>>

FactorsE10 == FactorsE8 \o <<5, 5, 4>>

\* q + r / c rounded to the nearest integer, ties to even (Python's round)
RoundedQuotient(q, r, c) ==
    IF 2 * r > c \/ (2 * r = c /\ q % 2 = 1) THEN q + 1 ELSE q

\* floor(a * 10^4 / c) for a >= 0 and 0 < c < 2^31 / 100
MulE4Div(a, c) == ScaleDivMod(a \div c, a % c, c, FactorsE4).q

\* floor(a * 10^8 / c) for a >= 0 and 0 < c < 2^31 / 5
MulE8Div(a, c) == ScaleDivMod(a \div c, a % c, c, FactorsE8).q

\* a / c rounded to the nearest integer, ties to even, for any a and c > 0
RoundDiv(a, c) == Sign(a) * RoundedQuotient(Abs(a) \div c, Abs(a) % c, c)

RECURSIVE IsqrtSearch(_, _, _)
IsqrtSearch(x, lo, hi) ==
    IF lo = hi THEN lo
    ELSE LET mid == (lo + hi + 1) \div 2
         IN  IF mid * mid <= x THEN IsqrtSearch(x, mid, hi)
             ELSE IsqrtSearch(x, lo, mid - 1)

\* floor(sqrt(x)) for 0 <= x < 2^31
Isqrt(x) == IsqrtSearch(x, 0, 46340)

\* sqrt(x) / n rounded to the nearest integer, ties to even
RoundSqrtDiv(x, n) ==
    LET q == Isqrt(x) \div n
        m == (2 * q + 1) * n
        h == m \div 2
        above == IF m % 2 = 0 THEN h * h < x ELSE h * h + h < x
        tie == m % 2 = 0 /\ h * h = x
    IN  IF above \/ (tie /\ q % 2 = 1) THEN q + 1 ELSE q

\* math.exp(-y) in units of 10^-8, for y >= 0 in millionths: the series of
\* exp(-frac(y)) times e^-1 for each whole unit of y.
RECURSIVE ExpSeries(_, _, _, _)
ExpSeries(f8, k, term, acc) ==
    IF term = 0 THEN acc
    ELSE LET next == MulShift8(term, f8) \div k
         IN  ExpSeries(f8, k + 1, next, IF k % 2 = 1 THEN acc - next ELSE acc + next)

RECURSIVE ExpWhole(_, _)
ExpWhole(v, n) == IF n = 0 \/ v = 0 THEN v ELSE ExpWhole(MulShift8(v, 36787944), n - 1)

ExpNeg(y6) == ExpWhole(ExpSeries((y6 % E6) * 100, 1, E8, E8), y6 \div E6)

----------------------------------------------------------------------------
(* Natural numbers of any size, for the value of a TF-IDF cosine: a number  *)
(* is the sequence of its digits in base 10^4, lowest first.               *)

\* n as digits, for 0 <= n < 2^31
BigOfInt(n) == <<n % E4, (n \div E4) % E4, n \div E8>>

BigDigit(a, i) == IF i <= Len(a) THEN a[i] ELSE 0

RECURSIVE BigAddFrom(_, _, _, _)
BigAddFrom(a, b, i, carry) ==
    IF i > Len(a) /\ i > Len(b)
    THEN IF carry = 0 THEN <<>> ELSE <<carry>>
    ELSE LET t == BigDigit(a, i) + BigDigit(b, i) + carry
         IN  <<t % E4>> \o BigAddFrom(a, b, i + 1, t \div E4)

BigAdd(a, b) == BigAddFrom(a, b, 1, 0)

\* a * m for 0 <= m < 10^5
RECURSIVE BigMulIntFrom(_, _, _, _)
BigMulIntFrom(a, m, i, carry) ==
    IF i > Len(a)
    THEN IF carry = 0 THEN <<>> ELSE <<carry % E4, carry \div E4>>
    ELSE LET t == a[i] * m + carry
         IN  <<t % E4>> \o BigMulIntFrom(a, m, i + 1, t \div E4)

BigMulInt(a, m) == BigMulIntFrom(a, m, 1, 0)

RECURSIVE BigMul(_, _)
BigMul(a, b) ==
    IF a = <<>> THEN <<>>
    ELSE BigAdd(BigMulInt(b, a[1]), <<0>> \o BigMul(Tail(a), b))

\* a < b
BigLess(a, b) ==
    \E i \in 1..Max(Len(a), Len(b)) :
        /\ BigDigit(a, i) < BigDigit(b, i)
        /\ \A j \in (i + 1)..Max(Len(a), Len(b)) : BigDigit(a, j) = BigDigit(b, j)

----------------------------------------------------------------------------
(* prompt_lab/ab_tester.py: ABTester *)

RECURSIVE SumSeq(_)
SumSeq(s) == IF s = <<>> THEN 0 ELSE Head(s) + SumSeq(Tail(s))

ZeroDivisionError == "ZeroDivisionError"

\* A plausible slip: the deviation of a single score is taken from 0 instead
\* of from the mean, so a sample of one has the score's size as its std.
ComputeVariantUncentred(name, scores) ==
    LET n == Len(scores)
        d == [k \in 1..n |-> scores[k] - scores[1]]
        total == SumSeq(scores)
        squares == SumSeq([k \in 1..n |-> d[k] * d[k]])
        shifted == SumSeq(d)
    IN  IF n = 0
        THEN [pattern_name |-> name, scores |-> <<>>, mean |-> 0, std |-> 0, n |-> 0]
        ELSE [pattern_name |-> name, scores |-> scores,
              mean |-> RoundDiv(1000 * total, n),
              std |-> IF n > 1
                      THEN RoundSqrtDiv(E6 * (n * squares - shifted * shifted), n)
                      ELSE Abs(1000 * total),
              n |-> n]

\* mean = sum(scores) / n; variance = sum((s - mean) ** 2) / n if n > 1 else 0.0.
\* With scores in tenths and d the scores' distances from the first one,
\* n^2 * 100 * variance = n * sum(d^2) - sum(d)^2.
_compute_variant(name, scores) ==
    LET n == Len(scores)
        d == [k \in 1..n |-> scores[k] - scores[1]]
        total == SumSeq(scores)
        squares == SumSeq([k \in 1..n |-> d[k] * d[k]])
        shifted == SumSeq(d)
    IN  IF n = 0
        THEN [pattern_name |-> name, scores |-> <<>>, mean |-> 0, std |-> 0, n |-> 0]
        ELSE [pattern_name |-> name, scores |-> scores,
              mean |-> RoundDiv(1000 * total, n),
              std |-> IF n > 1
                      THEN RoundSqrtDiv(E6 * (n * squares - shifted * shifted), n)
                      ELSE 0,
              n |-> n]

\* (va.mean - vb.mean) / sqrt(w / (na * nb)) in millionths, where
\* w = va.std^2 * nb + vb.std^2 * na: the integer square root of w / (na * nb),
\* refined by two Newton steps to units of 10^-8, then the division.
ZOverSe(diff, w, nn) ==
    LET r0 == Max(1, Isqrt(w \div nn))
        r1 == (r0 * E4 + MulE4Div(w, nn * r0)) \div 2
        r2 == (r1 + MulE8Div(w, r1) \div nn) \div 2
        m == ScaleDivMod(Abs(diff) \div r2, Abs(diff) % r2, r2, FactorsE10)
    IN  Sign(diff) * RoundedQuotient(m.q, m.r, r2)

\* What a call yields: a value, or the exception it raises.
Returned(v) == [raised |-> "no", value |-> v]

Raised(e) == [raised |-> e]

\* A plausible slip: the guard for a zero standard error is missing, and the
\* division raises.
ZTestNoZeroGuard(va, vb) ==
    IF va.n = 0 \/ vb.n = 0 THEN Returned(0)
    ELSE LET w == va.std * va.std * vb.n + vb.std * vb.std * va.n
         IN  IF w = 0 THEN Raised(ZeroDivisionError)
             ELSE Returned(ZOverSe(va.mean - vb.mean, w, va.n * vb.n))

\* se = sqrt(va.std^2 / va.n + vb.std^2 / vb.n) is zero exactly when w is.
_z_test(va, vb) ==
    IF va.n = 0 \/ vb.n = 0 THEN Returned(0)
    ELSE LET w == va.std * va.std * vb.n + vb.std * vb.std * va.n
         IN  IF w = 0 THEN Returned(0)
             ELSE Returned(ZOverSe(va.mean - vb.mean, w, va.n * vb.n))

\* The Abramowitz-Stegun tail: z and the result in millionths.
_p_value(z) ==
    LET x == Abs(z)
        t == MulE8Div(E8, E8 + MulShift8(23164190, x * 100))
        poly == Mul8(t, 31938150
                  + Mul8(t, -35656380
                  + Mul8(t, 178147800
                  + Mul8(t, -182125600
                  + Mul8(t, 133027440)))))
        \* x * x / 2 in millionths
        y == MulShift8(x, x * 50)
        p == Mul8(Mul8(39894228, ExpNeg(y)), poly)
    IN  IF x > 8 * E6 THEN 0 ELSE RoundDiv(2 * p, 100)

\* A plausible slip: the winner is the higher mean whether or not the
\* difference is significant.
WinnerByMeanOnly(is_significant, va, vb, name_a, name_b) ==
    IF va.mean = vb.mean THEN "tie"
    ELSE IF va.mean > vb.mean THEN name_a
    ELSE name_b

\* A plausible slip: equal means are reported as a tie even when the result
\* is significant.
WinnerTieOnEqualMeans(is_significant, va, vb, name_a, name_b) ==
    IF ~is_significant \/ va.mean = vb.mean THEN "tie"
    ELSE IF va.mean > vb.mean THEN name_a
    ELSE name_b

\* lines 67-75: the winner label
Winner(is_significant, va, vb, name_a, name_b) ==
    IF ~is_significant THEN "tie"
    ELSE IF va.mean > vb.mean THEN name_a
    ELSE name_b

\* A plausible slip: the lift is taken relative to the winner's mean.
LiftOverWinner(is_significant, va, vb) ==
    IF ~is_significant THEN 0
    ELSE IF va.mean > vb.mean
    THEN (IF vb.mean > 0 THEN RoundDiv((va.mean - vb.mean) * E4, va.mean) ELSE 0)
    ELSE (IF va.mean > 0 THEN RoundDiv((vb.mean - va.mean) * E4, vb.mean) ELSE 0)

\* lines 67-75: the lift, here in hundredths of a percent (round(lift, 2))
Lift(is_significant, va, vb) ==
    IF ~is_significant THEN 0
    ELSE IF va.mean > vb.mean
    THEN (IF vb.mean > 0 THEN RoundDiv((va.mean - vb.mean) * E4, vb.mean) ELSE 0)
    ELSE (IF va.mean > 0 THEN RoundDiv((vb.mean - va.mean) * E4, va.mean) ELSE 0)

\* lines 63-85: the test on the two variants' statistics, and the result
CompareVariants(va, vb, name_a, name_b) ==
    LET z == _z_test(va, vb)
    IN  IF z.raised # "no" THEN Raised(z.raised)
        ELSE LET z_score == z.value
                 p_value == _p_value(z_score)
                 is_significant == p_value < significance_level
             IN  [raised |-> "no",
                  variant_a |-> va,
                  variant_b |-> vb,
                  z_score |-> RoundDiv(z_score, 100),
                  p_value |-> RoundDiv(p_value, 100),
                  is_significant |-> is_significant,
                  winner |-> Winner(is_significant, va, vb, name_a, name_b),
                  lift |-> Lift(is_significant, va, vb)]

\* What compare returns, or the exception it ends with.
compare(scores_a, scores_b, name_a, name_b) ==
    CompareVariants(_compute_variant(name_a, scores_a),
                    _compute_variant(name_b, scores_b), name_a, name_b)

----------------------------------------------------------------------------
(* prompt_engineering_lab/optimizer.py: PromptOptimizer *)

\* The scorers the optimizer is built with: len(text), the constant 5.0, and
\* a callable that may return any of a few values on each call.
ScorerValues == {0, 1, 2}

Scorers == {"simple_scorer", "constant_scorer", "arbitrary"}

\* the values self.scorer(template) can return
ScorerOutcomes(scorer, template) ==
    CASE scorer = "simple_scorer" -> {Len(template)}
      [] scorer = "constant_scorer" -> {5}
      [] OTHER -> ScorerValues

\* words[idx], words[idx + 1] = words[idx + 1], words[idx]
SwapAt(words, idx) ==
    [k \in 1..Len(words) |->
        IF k = idx THEN words[idx + 1]
        ELSE IF k = idx + 1 THEN words[idx]
        ELSE words[k]]

\* what the "emphasize" mutation can put in place of word
Emphases(word) ==
    IF ~IsUpper(word) /\ "{" \notin Range(word)
    THEN {<<"*", "*">> \o word \o <<"*", "*">>, Upper(word)}
    ELSE {word}

\* the results of one mutation type on a template of two or more words
Mutations(template, mutation_type) ==
    LET words == Split(template)
    IN  CASE mutation_type = "swap" ->
                {Join(SwapAt(words, idx), <<" ">>) : idx \in 1..(Len(words) - 1)}
          [] mutation_type = "emphasize" ->
                UNION {{Join([words EXCEPT ![idx] = e], <<" ">>) : e \in Emphases(words[idx])} :
                          idx \in 1..Len(words)}
          [] OTHER ->
                LET sentences == SplitOn(template, <<".", " ">>)
                IN  IF Len(sentences) > 1
                    THEN {Join(shuffled, <<".", " ">>) : shuffled \in Shuffles(sentences)}
                    ELSE {Join(words, <<" ">>)}

\* every template mutate_template(template) can return
mutate_template(template) ==
    IF Len(Split(template)) < 2 THEN {template}
    ELSE UNION {Mutations(template, mutation_type) :
                   mutation_type \in {"swap", "emphasize", "reorder"}}

\* A plausible slip: the improvement is taken relative to the best score.
ImprovementOverBest(best_score, initial_score) ==
    IF best_score # 0
    THEN Rat((best_score - initial_score) * 100, best_score)
    ELSE RatZero

\* ((best_score - initial_score) / initial_score * 100) if initial_score != 0 else 0.0
ImprovementPct(best_score, initial_score) ==
    IF initial_score # 0
    THEN Rat((best_score - initial_score) * 100, initial_score)
    ELSE RatZero

\* the OptimizationResult both searches return
OptimizationResult(best_template, best_score, n_iterations, initial_score, history) ==
    [raised |-> "no",
     best_template |-> best_template,
     best_score |-> best_score,
     iterations |-> n_iterations,
     improvement_pct |-> ImprovementPct(best_score, initial_score),
     history |-> history]

----------------------------------------------------------------------------
(* prompt_engineering_lab/ab_tester.py: ABTestRunner                       *)
(*                                                                         *)
(* Scores are integers, means are exact rationals, the p-value and the     *)
(* effect size are in hundredths (the effect size rounded to the nearest). *)

ValueError == "ValueError"

\* n * (n - 1) * statistics.stdev(scores) ** 2, for n >= 2 scores
ScaledVariance(scores) ==
    LET n == Len(scores)
        total == SumSeq(scores)
    IN  n * SumSeq([k \in 1..n |-> scores[k] * scores[k]]) - total * total

\* lines 54-93.  With D = sum_a * n_b - sum_b * n_a, m = (n_a - 1)(n_b - 1)
\* and W = Q_a * n_b^2 * (n_b - 1) + Q_b * n_a^2 * (n_a - 1), where Q is the
\* scaled variance, z_score^2 = D^2 * m / W, and effect_size^2 =
\* 2 * D^2 * m / (n_a * n_b * (Q_a * n_b * (n_b - 1) + Q_b * n_a * (n_a - 1))).
\* stdev does not raise for two or more scores, and pooled_std is not zero
\* when one of the deviations is not.  Where z_score is exactly one of the
\* thresholds, the floating-point quotient falls on either side of it:
\* rounding says on which.
z_test(a_scores, b_scores, rounding) ==
    LET n_a == Len(a_scores)
        n_b == Len(b_scores)
        q_a == ScaledVariance(a_scores)
        q_b == ScaledVariance(b_scores)
        d == SumSeq(a_scores) * n_b - SumSeq(b_scores) * n_a
        m == (n_a - 1) * (n_b - 1)
        w == q_a * n_b * n_b * (n_b - 1) + q_b * n_a * n_a * (n_a - 1)
        above(c) == \/ 10000 * d * d * m > c * c * w
                    \/ rounding = "up" /\ 10000 * d * d * m = c * c * w
        den == n_a * n_b * (q_a * n_b * (n_b - 1) + q_b * n_a * (n_a - 1))
    IN  IF n_a < 2 \/ n_b < 2 THEN [p_value |-> 100, effect_size |-> 0]
        ELSE IF q_a = 0 /\ q_b = 0 THEN [p_value |-> 100, effect_size |-> 0]
        ELSE [p_value |-> IF above(258) THEN 1
                          ELSE IF above(196) THEN 4
                          ELSE IF above(100) THEN 15
                          ELSE 32,
              effect_size |-> (Isqrt((40000 * 2 * d * d * m) \div den) + 1) \div 2]

\* A plausible slip: the higher mean wins whatever the p-value is.
RunWinnerByMeans(p_value, a_mean, b_mean) ==
    IF RatLess(b_mean, a_mean) THEN "A"
    ELSE IF RatLess(a_mean, b_mean) THEN "B"
    ELSE "no_significant_difference"

\* lines 41-44
RunWinner(p_value, a_mean, b_mean) ==
    IF p_value < 5
    THEN (IF RatLess(b_mean, a_mean) THEN "A" ELSE "B")
    ELSE "no_significant_difference"

\* lines 35-52: the result of run, given the scores the scorer returned
ABTestResult(a_scores, b_scores, inputs, rounding) ==
    LET a_mean == Rat(SumSeq(a_scores), Len(a_scores))
        b_mean == Rat(SumSeq(b_scores), Len(b_scores))
        test == z_test(a_scores, b_scores, rounding)
    IN  [winner |-> RunWinner(test.p_value, a_mean, b_mean),
         p_value |-> test.p_value,
         effect_size |-> test.effect_size,
         a_mean |-> a_mean,
         b_mean |-> b_mean,
         sample_size |-> Len(inputs)]

----------------------------------------------------------------------------
(* prompt_lab/evaluator.py: PromptEvaluator *)

\* A plausible slip: the words of one or two characters are kept.
TokenizeKeepShort(text) == WordRuns(Lower(text))

\* PromptEvaluator._tokenize: the lowercase words longer than two characters
PromptEvaluator_tokenize(text) ==
    SelectSeq(WordRuns(Lower(text)), LAMBDA w : Len(w) > 2)

\* A plausible slip: the keywords are counted as a list, repeats included.
FaithfulnessOfTokenList(output, context) ==
    IF IsBlank(output) \/ IsBlank(context) THEN RatZero
    ELSE LET output_words == PromptEvaluator_tokenize(output)
             context_words == Range(PromptEvaluator_tokenize(context))
             overlap == SelectSeq(output_words, LAMBDA w : w \in context_words)
         IN  IF output_words = <<>> THEN RatZero
             ELSE Rat(Len(overlap), Len(output_words))

\* PromptEvaluator.faithfulness
faithfulness(output, context) ==
    IF IsBlank(output) \/ IsBlank(context) THEN RatZero
    ELSE LET output_words == Range(PromptEvaluator_tokenize(output))
             context_words == Range(PromptEvaluator_tokenize(context))
             overlap == output_words \cap context_words
         IN  IF output_words = {} THEN RatZero
             ELSE Rat(Cardinality(overlap), Cardinality(output_words))

\* A TF-IDF cosine similarity, kept exact: the value is
\*   dot / sqrt((a_shared + k^2 * a_only) * (b_shared + k^2 * b_only))
\* with k = ln(3 / 2) + 1 the idf of a term found in one text only (the idf
\* of a term found in both is ln(3 / 3) + 1 = 1). dot sums count_a * count_b
\* over the terms of both texts; a_shared and a_only sum count_a^2 over the
\* terms of both texts and over those of the first text only. Dividing the
\* counts by the text's length, as the term frequencies do, leaves the
\* value as it is.
Cosine(dot, a_shared, a_only, b_shared, b_only) ==
    [dot |-> dot, a_shared |-> a_shared, a_only |-> a_only,
     b_shared |-> b_shared, b_only |-> b_only]

\* the float 0.0
ZeroSimilarity == Cosine(0, 0, 0, 0, 0)

\* The cosine of the TF-IDF vectors of two token lists over their sorted
\* common vocabulary; a zero dot product gives 0.0.
TfidfCosine(a_tokens, b_tokens) ==
    LET vocab == Sorted(Range(a_tokens) \cup Range(b_tokens))
        a_counts == CountNgrams(a_tokens, 1, EmptyDict)
        b_counts == CountNgrams(b_tokens, 1, EmptyDict)
        doc_freq == [k \in DOMAIN vocab |->
                        (IF vocab[k] \in Range(a_tokens) THEN 1 ELSE 0)
                        + (IF vocab[k] \in Range(b_tokens) THEN 1 ELSE 0)]
        a(k) == DictGet(a_counts, vocab[k], 0)
        b(k) == DictGet(b_counts, vocab[k], 0)
        dot == SumSeq([k \in DOMAIN vocab |-> a(k) * b(k)])
        a_shared == SumSeq([k \in DOMAIN vocab |-> IF doc_freq[k] = 2 THEN a(k) * a(k) ELSE 0])
        a_only == SumSeq([k \in DOMAIN vocab |-> IF doc_freq[k] = 1 THEN a(k) * a(k) ELSE 0])
        b_shared == SumSeq([k \in DOMAIN vocab |-> IF doc_freq[k] = 2 THEN b(k) * b(k) ELSE 0])
        b_only == SumSeq([k \in DOMAIN vocab |-> IF doc_freq[k] = 1 THEN b(k) * b(k) ELSE 0])
    IN  IF dot = 0 THEN ZeroSimilarity
        ELSE Cosine(dot, a_shared, a_only, b_shared, b_only)

\* 10^12, k^2 * 10^12 and k^4 * 10^12 for k = ln(3 / 2) + 1, as digits in
\* base 10^4: k^2 = 1.975332170109..., k^4 = 3.901937182269...
BigE12 == <<0, 0, 0, 1>>

IdfSquaredE12 == <<109, 3217, 9753, 1>>

IdfFourthE12 == <<2269, 3718, 9019, 3>>

\* 10^26 = 100 * (10^4)^6
BigE26 == <<0, 0, 0, 0, 0, 0, 100>>

E7 == 10 * E6

\* the largest v in lo..hi with v^2 * x <= target
RECURSIVE RootSearch(_, _, _, _)
RootSearch(x, target, lo, hi) ==
    IF lo = hi THEN lo
    ELSE LET mid == (lo + hi + 1) \div 2
             square == BigMul(BigOfInt(mid), BigOfInt(mid))
         IN  IF BigLess(target, BigMul(square, x))
             THEN RootSearch(x, target, lo, mid - 1)
             ELSE RootSearch(x, target, mid, hi)

\* The value of a cosine in units of 10^-7, rounded down:
\*   dot / sqrt(a_shared * b_shared
\*              + k^2 * (a_shared * b_only + a_only * b_shared)
\*              + k^4 * a_only * b_only)
CosineE7(c) ==
    IF c.dot = 0 THEN 0
    ELSE LET x == BigAdd(BigMulInt(BigE12, c.a_shared * c.b_shared),
                         BigAdd(BigMulInt(IdfSquaredE12,
                                          c.a_shared * c.b_only + c.a_only * c.b_shared),
                                BigMulInt(IdfFourthE12, c.a_only * c.b_only)))
             target == BigMul(BigOfInt(c.dot * c.dot), BigE26)
         IN  RootSearch(x, target, 0, E7)

\* TfidfVectorizer's tokens: the lowercase words of two or more characters
TfidfVectorizerTokens(text) ==
    SelectSeq(WordRuns(Lower(text)), LAMBDA w : Len(w) >= 2)

\* TfidfVectorizer().fit_transform([a, b]) and cosine_similarity of the two
\* rows: a ValueError when neither text has a token (an empty vocabulary).
LibraryCosine(text_a, text_b) ==
    LET a_tokens == TfidfVectorizerTokens(text_a)
        b_tokens == TfidfVectorizerTokens(text_b)
    IN  IF a_tokens = <<>> /\ b_tokens = <<>> THEN Raised("ValueError")
        ELSE Returned(TfidfCosine(a_tokens, b_tokens))

\* What a similarity call yields, and the vectorization it ran: "none",
\* "library" or "fallback".
Similarity(raised, value, vectorized) ==
    [raised |-> raised, value |-> value, vectorized |-> vectorized]

\* SemanticSimilarity._fallback_similarity
_fallback_similarity(candidate_text, reference_text) ==
    LET cand_tokens == _tokenize(candidate_text)
        ref_tokens == _tokenize(reference_text)
    IN  IF cand_tokens = <<>> \/ ref_tokens = <<>> THEN ZeroSimilarity
        ELSE TfidfCosine(cand_tokens, ref_tokens)

\* A plausible slip: the texts are tested for emptiness without strip().
ScoreWithoutStrip(candidate_text, reference_text, sklearn) ==
    IF candidate_text = <<>> \/ reference_text = <<>>
    THEN Similarity("no", ZeroSimilarity, "none")
    ELSE IF sklearn
    THEN LET sim == LibraryCosine(candidate_text, reference_text)
         IN  IF sim.raised # "no" THEN Similarity(sim.raised, ZeroSimilarity, "library")
             ELSE Similarity("no", sim.value, "library")
    ELSE Similarity("no", _fallback_similarity(candidate_text, reference_text), "fallback")

\* SemanticSimilarity.score; sklearn tells whether the import succeeds
SemanticSimilarity_score(candidate_text, reference_text, sklearn) ==
    IF IsBlank(candidate_text) \/ IsBlank(reference_text)
    THEN Similarity("no", ZeroSimilarity, "none")
    ELSE IF sklearn
    THEN LET sim == LibraryCosine(candidate_text, reference_text)
         IN  IF sim.raised # "no" THEN Similarity(sim.raised, ZeroSimilarity, "library")
             ELSE Similarity("no", sim.value, "library")
    ELSE Similarity("no", _fallback_similarity(candidate_text, reference_text), "fallback")

\* PromptEvaluator._cosine_sim: a ValueError of the library gives 0.0
_cosine_sim(text_a, text_b) ==
    LET sim == LibraryCosine(text_a, text_b)
    IN  IF sim.raised # "no" THEN Similarity("no", ZeroSimilarity, "library")
        ELSE Similarity("no", sim.value, "library")

\* PromptEvaluator.relevance
relevance(output, query) ==
    IF IsBlank(output) \/ IsBlank(query)
    THEN Similarity("no", ZeroSimilarity, "none")
    ELSE _cosine_sim(output, query)

\* sub in text
Contains(sub, text) ==
    \E k \in 0..(Len(text) - Len(sub)) : SubSeq(text, k + 1, k + Len(sub)) = sub

\* A plausible slip: the topics are looked for in the output as it is cased.
CompletenessCaseSensitive(output, expected_topics) ==
    IF expected_topics = <<>> THEN RatOne
    ELSE LET found == SumSeq([k \in DOMAIN expected_topics |->
                          IF Contains(expected_topics[k], output) THEN 1 ELSE 0])
         IN  Rat(found, Len(expected_topics))

\* PromptEvaluator.completeness
completeness(output, expected_topics) ==
    IF expected_topics = <<>> THEN RatOne
    ELSE LET output_lower == Lower(output)
             found == SumSeq([k \in DOMAIN expected_topics |->
                          IF Contains(Lower(expected_topics[k]), output_lower)
                          THEN 1 ELSE 0])
         IN  Rat(found, Len(expected_topics))

\* An optional argument: None, or a value.
None == [kind |-> "None"]

Some(v) == [kind |-> "value", value |-> v]

\* argument or default
OrElse(argument, default, empty) ==
    IF argument.kind = "None" THEN default
    ELSE IF argument.value = empty THEN default
    ELSE argument.value

\* {"faithfulness": 0.4, "relevance": 0.4, "completeness": 0.2}, in tenths
DefaultWeights == [faithfulness |-> 4, relevance |-> 4, completeness |-> 2]

\* a fraction in [0, 1] in units of 10^-7, rounded down
RatE7(q) == (q.n * E7) \div q.d

\* round(q, 4) of a fraction, in ten-thousandths
RoundRat4(q) == RoundDiv(q.n * E4, q.d)

\* The EvaluationResult of a call: the four metrics in ten-thousandths.
EvaluationResult(faith, rel, comp, overall) ==
    [faithfulness |-> faith, relevance |-> rel, completeness |-> comp,
     overall |-> overall]

\* A plausible slip: a weights mapping that lacks a key counts it as 0.
EvaluateMissingWeightZero(output, query, context, expected_topics, weights) ==
    LET w == OrElse(weights, DefaultWeights, EmptyDict)
        faith == IF context # <<>> THEN faithfulness(output, context) ELSE RatZero
        rel == IF query # <<>> THEN CosineE7(relevance(output, query).value) ELSE 0
        comp == completeness(output, OrElse(expected_topics, <<>>, <<>>))
        overall == DictGet(w, "faithfulness", 0) * RatE7(faith)
                   + DictGet(w, "relevance", 0) * rel
                   + DictGet(w, "completeness", 0) * RatE7(comp)
    IN  EvaluationResult(RoundRat4(faith), RoundDiv(rel, 1000), RoundRat4(comp),
                         RoundDiv(overall, E4))

\* PromptEvaluator.evaluate.  The weights are in tenths, the three metrics
\* enter the weighted sum in units of 10^-7 (the relevance is the cosine,
\* which lies in [0, 1]), and the sum, in units of 10^-8, is rounded to
\* ten-thousandths as the three metrics are.
evaluate(output, query, context, expected_topics, weights) ==
    LET w == OrElse(weights, DefaultWeights, EmptyDict)
        faith == IF context # <<>> THEN faithfulness(output, context) ELSE RatZero
        rel == IF query # <<>> THEN CosineE7(relevance(output, query).value) ELSE 0
        comp == completeness(output, OrElse(expected_topics, <<>>, <<>>))
        overall == DictGet(w, "faithfulness", 4) * RatE7(faith)
                   + DictGet(w, "relevance", 4) * rel
                   + DictGet(w, "completeness", 2) * RatE7(comp)
    IN  EvaluationResult(RoundRat4(faith), RoundDiv(rel, 1000), RoundRat4(comp),
                         RoundDiv(overall, E4))

----------------------------------------------------------------------------
(* prompt_lab/ab_tester.py: ABTester.evaluate_and_compare *)

AttributeError == "AttributeError"

\* the attributes of an EvaluationResult
EvaluationFields == {"faithfulness", "relevance", "completeness", "overall"}

\* _compute_variant on the scores of an evaluation, which are integers of
\* ten-thousandths: with d the scores' distances from the first one,
\* n^2 * 10^8 * variance = n * sum(d^2) - sum(d)^2.
_compute_variant_e4(name, scores) ==
    LET n == Len(scores)
        d == [k \in 1..n |-> scores[k] - scores[1]]
        total == SumSeq(scores)
        squares == SumSeq([k \in 1..n |-> d[k] * d[k]])
        shifted == SumSeq(d)
    IN  IF n = 0
        THEN [pattern_name |-> name, scores |-> <<>>, mean |-> 0, std |-> 0, n |-> 0]
        ELSE [pattern_name |-> name, scores |-> scores,
              mean |-> RoundDiv(total, n),
              std |-> IF n > 1
                      THEN RoundSqrtDiv(n * squares - shifted * shifted, n)
                      ELSE 0,
              n |-> n]

\* zip(a, b, c, d): tuples are taken until one of the lists is exhausted
RECURSIVE Zip(_, _, _, _)
Zip(a, b, c, d) ==
    IF a = <<>> \/ b = <<>> \/ c = <<>> \/ d = <<>> THEN <<>>
    ELSE <<<<Head(a), Head(b), Head(c), Head(d)>>>>
         \o Zip(Tail(a), Tail(b), Tail(c), Tail(d))

\* A plausible slip: only a missing contexts argument is replaced by empty
\* strings, an empty list is zipped as it is.
EvaluateAndCompareNoneOnly(outputs_a, outputs_b, queries, contexts, name_a, name_b, metric) ==
    LET ctxs == IF contexts.kind = "None" THEN [k \in 1..Len(queries) |-> <<>>]
                ELSE contexts.value
        items == Zip(outputs_a, outputs_b, queries, ctxs)
        eval_a(k) == evaluate(items[k][1], items[k][3], items[k][4], None, None)
        eval_b(k) == evaluate(items[k][2], items[k][3], items[k][4], None, None)
    IN  IF items # <<>> /\ metric \notin EvaluationFields THEN Raised(AttributeError)
        ELSE CompareVariants(
                 _compute_variant_e4(name_a, [k \in 1..Len(items) |-> eval_a(k)[metric]]),
                 _compute_variant_e4(name_b, [k \in 1..Len(items) |-> eval_b(k)[metric]]),
                 name_a, name_b)

\* lines 101-112.  contexts is None or a list; getattr raises AttributeError
\* for a metric that an EvaluationResult does not have, in the first pass of
\* the loop.
evaluate_and_compare(outputs_a, outputs_b, queries, contexts, name_a, name_b, metric) ==
    LET ctxs == OrElse(contexts, [k \in 1..Len(queries) |-> <<>>], <<>>)
        items == Zip(outputs_a, outputs_b, queries, ctxs)
        eval_a(k) == evaluate(items[k][1], items[k][3], items[k][4], None, None)
        eval_b(k) == evaluate(items[k][2], items[k][3], items[k][4], None, None)
    IN  IF items # <<>> /\ metric \notin EvaluationFields THEN Raised(AttributeError)
        ELSE CompareVariants(
                 _compute_variant_e4(name_a, [k \in 1..Len(items) |-> eval_a(k)[metric]]),
                 _compute_variant_e4(name_b, [k \in 1..Len(items) |-> eval_b(k)[metric]]),
                 name_a, name_b)

----------------------------------------------------------------------------
(* prompt_engineering_lab/template.py: PromptTemplate, and                  *)
(* prompt_lab/patterns.py: PromptPattern.render                            *)

\* What a rendering call yields: the text returned, or the exception raised
\* with the kind of its message and the names the message lists.  The names
\* are a set: PromptTemplate.format lists them in the order of list(set(...)).
Rendered(text) == [raised |-> "no", message |-> "", names |-> {}, value |-> text]

RenderError(e, message, names) ==
    [raised |-> e, message |-> message, names |-> names, value |-> <<>>]

\* A PromptPattern, as far as rendering goes: its template text and its
\* declared variables.
PatternOf(template, variables) == [template |-> template, variables |-> variables]

\* isinstance(object, PromptPattern), for the two kinds of object rendered
IsPattern(object) == "variables" \in DOMAIN object

\* The keyword arguments are a sequence of <<key, value>> in the order given.
Keys(kwargs) == {kwargs[k][1] : k \in DOMAIN kwargs}

ValueOf(kwargs, key) == kwargs[CHOOSE k \in DOMAIN kwargs : kwargs[k][1] = key][2]

\* re.findall(r"\{([^}]+)\}", text), from position k on: at an opening brace
\* the name runs to the next closing brace and must not be empty; the search
\* goes on after that closing brace.
RECURSIVE FindAllFrom(_, _)
FindAllFrom(text, k) ==
    IF k > Len(text) THEN {}
    ELSE IF text[k] # "{" THEN FindAllFrom(text, k + 1)
    ELSE LET closes == {j \in (k + 1)..Len(text) : text[j] = "}"}
         IN  IF closes = {} THEN {}
             ELSE LET j == CHOOSE c \in closes : \A o \in closes : c <= o
                  IN  IF j = k + 1 THEN FindAllFrom(text, k + 1)
                      ELSE {SubSeq(text, k + 1, j - 1)} \cup FindAllFrom(text, j + 1)

\* PromptTemplate.variables
PromptTemplate_variables(template) == FindAllFrom(template, 1)

\* str.format(**kwargs) from position k on, with the text produced so far:
\* doubled braces are literal braces, {name} is replaced by the value of name,
\* an empty name is positional argument 0, and a brace that is neither is an
\* error.  The string is processed from left to right.
RECURSIVE StrFormatFrom(_, _, _, _)
StrFormatFrom(text, k, kwargs, out) ==
    IF k > Len(text) THEN Rendered(out)
    ELSE IF text[k] = "{"
    THEN IF k = Len(text)
         THEN RenderError("ValueError", "Single '{' encountered in format string", {})
         ELSE IF text[k + 1] = "{"
         THEN StrFormatFrom(text, k + 2, kwargs, Append(out, "{"))
         ELSE LET stops == {j \in (k + 1)..Len(text) : text[j] \in {"{", "}"}}
              IN  IF stops = {}
                  THEN RenderError("ValueError", "expected '}' before end of string", {})
                  ELSE LET j == CHOOSE c \in stops : \A o \in stops : c <= o
                           name == SubSeq(text, k + 1, j - 1)
                       IN  IF text[j] = "{"
                           THEN RenderError("ValueError",
                                            "unexpected '{' in field name", {})
                           ELSE IF name = <<>>
                           THEN RenderError("IndexError",
                                            "Replacement index 0 out of range", {})
                           ELSE IF name \notin Keys(kwargs)
                           THEN RenderError("KeyError", "", {name})
                           ELSE StrFormatFrom(text, j + 1, kwargs,
                                              out \o ValueOf(kwargs, name))
    ELSE IF text[k] = "}"
    THEN IF k < Len(text) /\ text[k + 1] = "}"
         THEN StrFormatFrom(text, k + 2, kwargs, Append(out, "}"))
         ELSE RenderError("ValueError", "Single '}' encountered in format string", {})
    ELSE StrFormatFrom(text, k + 1, kwargs, Append(out, text[k]))

StrFormat(text, kwargs) == StrFormatFrom(text, 1, kwargs, <<>>)

\* PromptTemplate.format
PromptTemplate_format(template, kwargs) ==
    LET required_vars == PromptTemplate_variables(template)
        missing_vars == {v \in required_vars : v \notin Keys(kwargs)}
    IN  IF missing_vars # {}
        THEN RenderError("ValueError", "Missing required variables", missing_vars)
        ELSE StrFormat(template, kwargs)

\* "0" to "9" in order
DigitChars == <<"0", "1", "2", "3", "4", "5", "6", "7", "8", "9">>

\* str(n) for a natural number n
RECURSIVE Decimal(_)
Decimal(n) ==
    IF n < 10 THEN <<DigitChars[n + 1]>>
    ELSE Decimal(n \div 10) \o <<DigitChars[(n % 10) + 1]>>

\* "previous_output"
PreviousOutput == <<"p", "r", "e", "v", "i", "o", "u", "s", "_", "o", "u", "t", "p", "u", "t">>

\* f"step_{i}_output"
StepOutput(i) == <<"s", "t", "e", "p", "_">> \o Decimal(i) \o <<"_", "o", "u", "t", "p", "u", "t">>

\* mapping[key] = value on a mapping kept as its items in insertion order
SetItem(kwargs, key, value) ==
    IF key \in Keys(kwargs)
    THEN [k \in DOMAIN kwargs |-> IF kwargs[k][1] = key THEN <<key, value>> ELSE kwargs[k]]
    ELSE Append(kwargs, <<key, value>>)

\* str.replace(old, new) for a non-empty old, from position k on: the
\* occurrences are replaced from left to right and do not overlap.
RECURSIVE ReplaceFrom(_, _, _, _)
ReplaceFrom(text, old, new, k) ==
    IF k > Len(text) THEN <<>>
    ELSE IF k + Len(old) - 1 <= Len(text) /\ SubSeq(text, k, k + Len(old) - 1) = old
         THEN new \o ReplaceFrom(text, old, new, k + Len(old))
         ELSE <<text[k]>> \o ReplaceFrom(text, old, new, k + 1)

Replace(text, old, new) == ReplaceFrom(text, old, new, 1)

\* "{{" + key + "}}"
Placeholder(key) == <<"{", "{">> \o key \o <<"}", "}">>

\* for key, value in kwargs.items(): result = result.replace(...)
RECURSIVE ReplaceEach(_, _, _)
ReplaceEach(result, kwargs, k) ==
    IF k > Len(kwargs) THEN result
    ELSE ReplaceEach(Replace(result, Placeholder(kwargs[k][1]), kwargs[k][2]),
                     kwargs, k + 1)

\* PromptPattern.render
PromptPattern_render(pattern, kwargs) ==
    LET missing == SelectSeq(pattern.variables, LAMBDA v : v \notin Keys(kwargs))
    IN  IF missing # <<>>
        THEN RenderError("ValueError", "Missing variables", Range(missing))
        ELSE Rendered(ReplaceEach(pattern.template, kwargs, 1))

----------------------------------------------------------------------------
(* prompt_lab/benchmark.py: BenchmarkRunner                                *)
(*                                                                         *)
(* A task is a mapping with some of the keys name, variables,              *)
(* default_variables, mock_outputs, default_output, context, query and     *)
(* expected_topics.  The latencies, which are readings of the clock, are   *)
(* left out of the results and of the summary.                             *)

BenchmarkResult(pattern_name, task_name, rendered_prompt, mock_output, evaluation) ==
    [pattern_name |-> pattern_name, task_name |-> task_name,
     rendered_prompt |-> rendered_prompt, mock_output |-> mock_output,
     evaluation |-> evaluation]

BenchmarkReport(results, best_pattern, best_overall, summary) ==
    [results |-> results, best_pattern |-> best_pattern,
     best_overall |-> best_overall, summary |-> summary]

\* lines 44-73; the ValueError of render is not caught here
run_single(pattern, task_name, variables, mock_output, context, query, expected_topics) ==
    LET rendered == PromptPattern_render(pattern, variables)
    IN  IF rendered.raised # "no" THEN Raised(rendered.raised)
        ELSE Returned(BenchmarkResult(pattern.name, task_name, rendered.value, mock_output,
                 evaluate(mock_output,
                          IF query # <<>> THEN query ELSE rendered.value,
                          context, expected_topics, None)))

\* lines 89-107: the results one pattern adds for one task, none or one
RunPatternOnTask(pattern, task) ==
    LET variables == DictGet(DictGet(task, "variables", EmptyDict), pattern.name,
                             DictGet(task, "default_variables", <<>>))
        mock_output == DictGet(DictGet(task, "mock_outputs", EmptyDict), pattern.name,
                               DictGet(task, "default_output", <<>>))
        result == run_single(pattern, DictGet(task, "name", "unnamed"), variables,
                             mock_output, DictGet(task, "context", <<>>),
                             DictGet(task, "query", <<>>),
                             IF "expected_topics" \in DOMAIN task
                             THEN Some(task["expected_topics"]) ELSE None)
    IN  IF variables = <<>> THEN <<>>
        ELSE IF result.raised # "no" THEN <<>>
        ELSE <<result.value>>

\* lines 87-107: for task in tasks, for pattern in patterns, from pass k on
RECURSIVE RunAll(_, _, _)
RunAll(patterns, tasks, k) ==
    IF k >= Len(tasks) * Len(patterns) THEN <<>>
    ELSE RunPatternOnTask(patterns[(k % Len(patterns)) + 1],
                          tasks[(k \div Len(patterns)) + 1])
         \o RunAll(patterns, tasks, k + 1)

\* the keys of groups, in the order of their first result
RECURSIVE GroupNames(_, _)
GroupNames(results, seen) ==
    IF results = <<>> THEN <<>>
    ELSE IF Head(results).pattern_name \in seen THEN GroupNames(Tail(results), seen)
    ELSE <<Head(results).pattern_name>>
         \o GroupNames(Tail(results), seen \cup {Head(results).pattern_name})

\* the results with a pattern name
Group(results, pname) == SelectSeq(results, LAMBDA r : r.pattern_name = pname)

\* sum(r.evaluation.<metric> for r in group), in ten-thousandths
Total(group, metric) == SumSeq([k \in DOMAIN group |-> group[k].evaluation[metric]])

\* The averages, as <<entry, metric>>, that lie exactly halfway between two
\* ten-thousandths: the float is just below or just above the half, and is
\* rounded down or up.
HalfwayAverages(results) ==
    LET names == GroupNames(results, {})
    IN  {at \in (DOMAIN names) \X EvaluationFields :
            LET group == Group(results, names[at[1]])
            IN  2 * (Total(group, at[2]) % Len(group)) = Len(group)}

\* round(sum(r.evaluation.<metric> for r in group) / n, 4), in
\* ten-thousandths; up says how an average that lies halfway is rounded
Average(group, metric, up) ==
    IF 2 * (Total(group, metric) % Len(group)) = Len(group)
    THEN (Total(group, metric) \div Len(group)) + (IF up THEN 1 ELSE 0)
    ELSE RoundDiv(Total(group, metric), Len(group))

\* lines 125-142: one entry per pattern name, in the order of groups;
\* rounded_up holds the halfway averages that are rounded up
_compute_summary(results, rounded_up) ==
    LET names == GroupNames(results, {})
        avg(k, metric) ==
            Average(Group(results, names[k]), metric, <<k, metric>> \in rounded_up)
    IN  [k \in DOMAIN names |->
            [pattern_name |-> names[k],
             avg_faithfulness |-> avg(k, "faithfulness"),
             avg_relevance |-> avg(k, "relevance"),
             avg_completeness |-> avg(k, "completeness"),
             avg_overall |-> avg(k, "overall"),
             num_tasks |-> Len(Group(results, names[k]))]]

\* lines 110-116: the loop over the summary from entry k on, with the best
\* so far
RECURSIVE BestFrom(_, _, _)
BestFrom(summary, k, best) ==
    IF k > Len(summary) THEN best
    ELSE IF summary[k].avg_overall > best.best_overall
    THEN BestFrom(summary, k + 1, [best_pattern |-> summary[k].pattern_name,
                                   best_overall |-> summary[k].avg_overall])
    ELSE BestFrom(summary, k + 1, best)

\* lines 109-123: the report on the results of the two loops
ReportOn(results, rounded_up) ==
    LET summary == _compute_summary(results, rounded_up)
        best == BestFrom(summary, 1, [best_pattern |-> "", best_overall |-> 0])
    IN  BenchmarkReport(results, best.best_pattern, best.best_overall, summary)

----------------------------------------------------------------------------
(* What a call on a store yields *)

ReturnedAs(kind, v) == [raised |-> "no", kind |-> kind, value |-> v]

ReturnedNone == ReturnedAs("None", "None")

KeyError == "KeyError"

----------------------------------------------------------------------------
(* prompt_engineering_lab/versioning.py: PromptVersionManager *)

\* the length of the common run of a from i and b from j
RECURSIVE MatchLength(_, _, _, _, _, _)
MatchLength(a, b, i, j, ahi, bhi) ==
    IF i > ahi \/ j > bhi \/ a[i] # b[j] THEN 0
    ELSE 1 + MatchLength(a, b, i + 1, j + 1, ahi, bhi)

\* SequenceMatcher.find_longest_match: the longest block common to a[alo..ahi]
\* and b[blo..bhi], the earliest in a and then in b among the longest
find_longest_match(a, b, alo, ahi, blo, bhi) ==
    LET starts == (alo..ahi) \X (blo..bhi)
        size(st) == MatchLength(a, b, st[1], st[2], ahi, bhi)
        best == CHOOSE st \in starts :
                    \A other \in starts :
                        \/ size(other) < size(st)
                        \/ /\ size(other) = size(st)
                           /\ \/ st[1] < other[1]
                              \/ st[1] = other[1] /\ st[2] <= other[2]
    IN  [i |-> best[1], j |-> best[2], size |-> size(best)]

\* the total size of SequenceMatcher.get_matching_blocks
RECURSIVE MatchingSize(_, _, _, _, _, _)
MatchingSize(a, b, alo, ahi, blo, bhi) ==
    IF alo > ahi \/ blo > bhi THEN 0
    ELSE LET m == find_longest_match(a, b, alo, ahi, blo, bhi)
         IN  IF m.size = 0 THEN 0
             ELSE m.size
                  + MatchingSize(a, b, alo, m.i - 1, blo, m.j - 1)
                  + MatchingSize(a, b, m.i + m.size, ahi, m.j + m.size, bhi)

\* round(SequenceMatcher(None, a, b).ratio(), 4) in ten-thousandths
RoundedRatio(a, b) ==
    IF Len(a) + Len(b) = 0 THEN E4
    ELSE RoundDiv(2 * MatchingSize(a, b, 1, Len(a), 1, Len(b)) * E4, Len(a) + Len(b))

PromptVersion(version_id, template, metadata) ==
    [version_id |-> version_id, template |-> template, metadata |-> metadata,
     performance |-> EmptyDict]

\* A plausible slip: get_version raises for an id that is not stored.
GetVersionOrRaise(versions, version_id) ==
    IF version_id \in DOMAIN versions
    THEN ReturnedAs("PromptVersion", versions[version_id])
    ELSE Raised(KeyError)

\* self._versions.get(version_id)
get_version(versions, version_id) ==
    IF version_id \in DOMAIN versions
    THEN ReturnedAs("PromptVersion", versions[version_id])
    ELSE ReturnedNone

diff(versions, version_a, version_b) ==
    IF version_a \notin DOMAIN versions \/ version_b \notin DOMAIN versions
    THEN Raised(KeyError)
    ELSE LET va == versions[version_a]
             vb == versions[version_b]
             words_a == Range(Split(va.template))
             words_b == Range(Split(vb.template))
         IN  ReturnedAs("VersionDiff",
                 [version_a |-> version_a,
                  version_b |-> version_b,
                  added_words |-> Sorted(words_b \ words_a),
                  removed_words |-> Sorted(words_a \ words_b),
                  similarity |-> RoundedRatio(va.template, vb.template)])

\* what rollback returns or raises
rollback(versions, version_id) ==
    IF version_id \notin DOMAIN versions THEN Raised(KeyError)
    ELSE ReturnedAs("PromptVersion", versions[version_id])

\* [self._versions[vid] for vid in self._order]
list_versions(versions, order) ==
    ReturnedAs("list", [k \in DOMAIN order |-> versions[order[k]]])

\* the active_version property
active_version(versions, active_id) ==
    IF active_id = "None" THEN ReturnedNone
    ELSE get_version(versions, active_id)

\* dict.update(metrics)
DictUpdate(d, metrics) ==
    [k \in (DOMAIN d) \cup (DOMAIN metrics) |->
        IF k \in DOMAIN metrics THEN metrics[k] ELSE d[k]]

----------------------------------------------------------------------------
(* prompt_lab/patterns.py: PatternLibrary *)

\* A PromptPattern, as far as the library's lookups go: its name, variables
\* and tags.
PromptPattern(name, variables, tags) ==
    [name |-> name, variables |-> variables, tags |-> tags]

\* PatternLibrary._register_builtins
BuiltinPatterns ==
    <<PromptPattern("chain_of_thought", <<"problem">>, <<"reasoning", "analysis">>),
      PromptPattern("few_shot", <<"examples", "input">>, <<"learning", "examples">>),
      PromptPattern("structured_output", <<"task", "format", "input">>,
                    <<"formatting", "structured">>),
      PromptPattern("role_play", <<"role", "context", "task">>, <<"persona", "role">>),
      PromptPattern("tool_use", <<"tools", "task">>, <<"tools", "function_calling">>),
      PromptPattern("self_consistency", <<"num_attempts", "question">>,
                    <<"reliability", "consistency">>),
      PromptPattern("rag", <<"context", "question">>, <<"retrieval", "grounding">>),
      PromptPattern("decomposition", <<"task">>, <<"decomposition", "planning">>)>>

\* for p in patterns: self._patterns[p.name] = p
ByName(items) ==
    [name \in {items[k].name : k \in DOMAIN items} |->
        items[CHOOSE k \in DOMAIN items :
                  items[k].name = name /\ \A later \in DOMAIN items :
                      items[later].name = name => later <= k]]

\* self._patterns.get(name)
PatternLibrary_get(patterns, name) ==
    IF name \in DOMAIN patterns THEN ReturnedAs("PromptPattern", patterns[name])
    ELSE ReturnedNone

----------------------------------------------------------------------------
(* prompt_lab/categories.py: CategoryRegistry *)

\* A TaskCategory with its recommended patterns and the names of its examples.
TaskCategory(name, recommended_patterns, examples) ==
    [name |-> name, recommended_patterns |-> recommended_patterns,
     examples |-> examples]

\* CategoryRegistry._register_builtins
BuiltinCategories ==
    <<TaskCategory("classification", <<"few_shot", "chain_of_thought">>,
                   <<"sentiment_analysis", "ticket_routing">>),
      TaskCategory("extraction", <<"structured_output", "few_shot">>,
                   <<"contact_extraction", "date_extraction">>),
      TaskCategory("generation", <<"role_play", "structured_output">>,
                   <<"email_draft">>),
      TaskCategory("summarization", <<"chain_of_thought", "decomposition">>,
                   <<"article_summary">>),
      TaskCategory("qa", <<"rag", "chain_of_thought">>, <<"policy_qa">>),
      TaskCategory("analysis", <<"chain_of_thought", "decomposition">>,
                   <<"market_analysis">>),
      TaskCategory("transformation", <<"structured_output", "few_shot">>,
                   <<"csv_to_json">>)>>

\* self._categories.get(name)
CategoryRegistry_get(categories, name) ==
    IF name \in DOMAIN categories THEN ReturnedAs("TaskCategory", categories[name])
    ELSE ReturnedNone

\* cat.examples if cat else []
get_examples(categories, category_name) ==
    IF category_name \in DOMAIN categories
    THEN ReturnedAs("list", categories[category_name].examples)
    ELSE ReturnedAs("list", <<>>)

----------------------------------------------------------------------------
(* prompt_engineering_lab/template.py: TemplateRegistry *)

PromptTemplate(name, template) == [name |-> name, template |-> template]

\* "Summarize the following text in {word_count} words or less:\n\n{text}"
SummarizeTemplate ==
    <<"S", "u", "m", "m", "a", "r", "i", "z", "e", " ", "t", "h", "e", " ",
      "f", "o", "l", "l", "o", "w", "i", "n", "g", " ", "t", "e", "x", "t",
      " ", "i", "n", " ", "{", "w", "o", "r", "d", "_", "c", "o", "u", "n",
      "t", "}", " ", "w", "o", "r", "d", "s", " ", "o", "r", " ", "l", "e",
      "s", "s", ":", "\n", "\n", "{", "t", "e", "x", "t", "}">>

\* "Extract {entity_type} from the following text:\n\n{text}"
ExtractTemplate ==
    <<"E", "x", "t", "r", "a", "c", "t", " ", "{", "e", "n", "t", "i", "t",
      "y", "_", "t", "y", "p", "e", "}", " ", "f", "r", "o", "m", " ", "t",
      "h", "e", " ", "f", "o", "l", "l", "o", "w", "i", "n", "g", " ", "t",
      "e", "x", "t", ":", "\n", "\n", "{", "t", "e", "x", "t", "}">>

\* "Analyze the following {content_type} and provide insights on
\* {aspect}:\n\n{content}"
AnalyzeTemplate ==
    <<"A", "n", "a", "l", "y", "z", "e", " ", "t", "h", "e", " ", "f", "o",
      "l", "l", "o", "w", "i", "n", "g", " ", "{", "c", "o", "n", "t", "e",
      "n", "t", "_", "t", "y", "p", "e", "}", " ", "a", "n", "d", " ", "p",
      "r", "o", "v", "i", "d", "e", " ", "i", "n", "s", "i", "g", "h", "t",
      "s", " ", "o", "n", " ", "{", "a", "s", "p", "e", "c", "t", "}", ":",
      "\n", "\n", "{", "c", "o", "n", "t", "e", "n", "t", "}">>

\* "Compare {item_a} and {item_b} in terms of {criteria}."
CompareTemplate ==
    <<"C", "o", "m", "p", "a", "r", "e", " ", "{", "i", "t", "e", "m", "_",
      "a", "}", " ", "a", "n", "d", " ", "{", "i", "t", "e", "m", "_", "b",
      "}", " ", "i", "n", " ", "t", "e", "r", "m", "s", " ", "o", "f", " ",
      "{", "c", "r", "i", "t", "e", "r", "i", "a", "}", ".">>

\* TemplateRegistry._load_builtins
BuiltinTemplates ==
    <<PromptTemplate("summarize", SummarizeTemplate),
      PromptTemplate("extract", ExtractTemplate),
      PromptTemplate("analyze", AnalyzeTemplate),
      PromptTemplate("compare", CompareTemplate)>>

builtin_names == <<"summarize", "extract", "analyze", "compare">>

TemplateRegistry_get(templates, name) ==
    IF name \notin DOMAIN templates THEN Raised(KeyError)
    ELSE ReturnedAs("PromptTemplate", templates[name])

get_builtin(templates, name) ==
    IF name \notin Range(builtin_names) THEN Raised(KeyError)
    ELSE TemplateRegistry_get(templates, name)

----------------------------------------------------------------------------
(* Input texts *)

RECURSIVE SeqsUpTo(_, _)
SeqsUpTo(S, n) ==
    IF n = 0 THEN {<<>>}
    ELSE LET shorter == SeqsUpTo(S, n - 1)
         IN  shorter \cup {Append(s, x) : s \in shorter, x \in S}

TheCatSat == <<"t", "h", "e", " ", "c", "a", "t", " ", "s", "a", "t">>

TheCatMat == <<"t", "h", "e", " ", "c", "a", "t", " ", "m", "a", "t">>

TheCatSatOnTheMat ==
    <<"t", "h", "e", " ", "c", "a", "t", " ", "s", "a", "t", " ",
      "o", "n", " ", "t", "h", "e", " ", "m", "a", "t">>

MixedCaseText == <<"T", "h", "e", "\t", " ", "C", "A", "T", "\n">>

\* "a b", "b a", "a b a", "b a b", "a b b a", "b a c b": texts whose common
\* tokens come in different orders
OrderTexts ==
    {<<"a", " ", "b">>, <<"b", " ", "a">>, <<"a", " ", "b", " ", "a">>,
     <<"b", " ", "a", " ", "b">>, <<"a", " ", "b", " ", "b", " ", "a">>,
     <<"b", " ", "a", " ", "c", " ", "b">>}

RougeTexts ==
    SeqsUpTo({"a", " "}, MaxTextLen)
        \cup {TheCatSat, TheCatMat, TheCatSatOnTheMat, MixedCaseText}
        \cup OrderTexts

----------------------------------------------------------------------------
(* Inputs of ABTester *)

\* Scores in tenths: -0.5, 0.0 and 1.0.
ScoreValues == {-5, 0, 10}

ScoreSamples == SeqsUpTo(ScoreValues, MaxSamples)

\* Scores near 2000 a tenth apart: 2000.0 and 2000.1
LargeScoreValues == {20000, 20001}

LargeScoreSamples == SeqsUpTo(LargeScoreValues, MaxSamples)

\* The two samples of a comparison: both of scores near 0, or both of
\* scores near 2000.
SamplePairs ==
    (ScoreSamples \X ScoreSamples) \cup (LargeScoreSamples \X LargeScoreSamples)

\* Significance levels in millionths: 0.01, the default 0.05, 1.0 and 1.5.
SignificanceLevels == {10000, 50000, 1000000, 1500000}

NamePairs == {<<"variant_a", "variant_b">>, <<"a", "b">>}

(* Inputs of PromptOptimizer *)

IterationCounts == 0..MaxIterations

\* "a", "a b"
PoolTemplates == {<<"a">>, <<"a", " ", "b">>}

Pools == SeqsUpTo(PoolTemplates, MaxPool)

\* "", "a", "a b", "a. b", "A {x}"
BaseTemplates ==
    {<<>>, <<"a">>, <<"a", " ", "b">>, <<"a", ".", " ", "b">>,
     <<"A", " ", "{", "x", "}">>}

(* Inputs of ABTestRunner *)

\* "", "a", "abc": what simple_scorer scores 0, 1 and 3
RunnerTemplates == {<<>>, <<"a">>, <<"a", "b", "c">>}

\* "in1", "in2", ...: no input is one of the templates
RunnerInput(k) == <<"i", "n">> \o Decimal(k)

\* how a floating-point quotient that is exactly a threshold is rounded
Roundings == {"down", "up"}

\* the inputs lists: none to MaxSamples inputs
RunnerInputs == {[k \in 1..n |-> RunnerInput(k)] : n \in 0..MaxSamples}

(* Inputs of PromptEvaluator *)

\* "Electronics can be returned within 30 days."
ElectronicsOutput ==
    <<"E", "l", "e", "c", "t", "r", "o", "n", "i", "c", "s", " ", "c", "a",
      "n", " ", "b", "e", " ", "r", "e", "t", "u", "r", "n", "e", "d", " ",
      "w", "i", "t", "h", "i", "n", " ", "3", "0", " ", "d", "a", "y", "s",
      ".">>

\* "Return policy: 30 days for electronics, 60 days for clothing."
ReturnPolicyContext ==
    <<"R", "e", "t", "u", "r", "n", " ", "p", "o", "l", "i", "c", "y", ":",
      " ", "3", "0", " ", "d", "a", "y", "s", " ", "f", "o", "r", " ", "e",
      "l", "e", "c", "t", "r", "o", "n", "i", "c", "s", ",", " ", "6", "0",
      " ", "d", "a", "y", "s", " ", "f", "o", "r", " ", "c", "l", "o", "t",
      "h", "i", "n", "g", ".">>

\* "cat", "Cats,", "to", "30"
EvalWords ==
    {<<"c", "a", "t">>, <<"C", "a", "t", "s", ",">>, <<"t", "o">>, <<"3", "0">>}

\* "cat Cats, cat": a text that says a keyword twice
CatCatsCat == <<"c", "a", "t", " ", "C", "a", "t", "s", ",", " ", "c", "a", "t">>

EvalTexts ==
    {Join(words, <<" ">>) : words \in SeqsUpTo(EvalWords, MaxEvalWords)}
        \cup {<<" ">>, ElectronicsOutput, ReturnPolicyContext, CatCatsCat}

\* The texts compared for similarity: the ones above, "a" (a word the
\* vectorizer drops) and a newline.
SimilarityTexts == EvalTexts \cup {<<"a">>, <<"\n">>}

\* "The return policy is 30 days."
ReturnPolicyOutput ==
    <<"T", "h", "e", " ", "r", "e", "t", "u", "r", "n", " ", "p", "o", "l",
      "i", "c", "y", " ", "i", "s", " ", "3", "0", " ", "d", "a", "y", "s",
      ".">>

\* ["return", "days", "electronics", "receipt"]
ReturnPolicyTopics ==
    <<<<"r", "e", "t", "u", "r", "n">>, <<"d", "a", "y", "s">>,
      <<"e", "l", "e", "c", "t", "r", "o", "n", "i", "c", "s">>,
      <<"r", "e", "c", "e", "i", "p", "t">>>>

\* "CAT", "at", "days", ""
TopicWords == {<<"C", "A", "T">>, <<"a", "t">>, <<"d", "a", "y", "s">>, <<>>}

TopicLists == SeqsUpTo(TopicWords, MaxTopics) \cup {ReturnPolicyTopics}

CompletenessOutputs == EvalTexts \cup {ReturnPolicyOutput}

(* Inputs of the stores *)

\* uuid.uuid4().hex[:8]: the ids a new version can get
VersionIds == {"0a1b2c3d", "4e5f6a7b"}

\* the ids looked up: the ones above and one that is never issued
VersionKeys == VersionIds \cup {"nonexistent"}

\* "a b", "b c"
VersionTemplates == {<<"a", " ", "b">>, <<"b", " ", "c">>}

MetricsInputs == {[accuracy |-> 1]}

CustomPatterns == {PromptPattern("custom", <<"x">>, <<"custom">>)}

PatternKeys ==
    {"chain_of_thought", "rag", "custom", "nonexistent_pattern"}

CustomCategories == {TaskCategory("custom", <<"rag">>, <<>>)}

(* Inputs of PromptEvaluator.evaluate *)

\* "", " ", "cat", "cat Cats,", "to", and the three return-policy sentences
EvaluateTexts ==
    {<<>>, <<" ">>, <<"c", "a", "t">>,
     <<"c", "a", "t", " ", "C", "a", "t", "s", ",">>, <<"t", "o">>,
     ElectronicsOutput, ReturnPolicyContext, ReturnPolicyOutput}

\* None, [], ["cat", "days"] and the topics of the return-policy scenario
EvaluateTopics ==
    {None, Some(<<>>), Some(<<<<"c", "a", "t">>, <<"d", "a", "y", "s">>>>),
     Some(ReturnPolicyTopics)}

\* None, {}, {"faithfulness": 1.0}, {"relevance": 0.0, "completeness": 0.5}
\* and weights of 0.5, 0.3 and 0.2, in tenths
EvaluateWeights ==
    {None, Some(EmptyDict), Some([faithfulness |-> 10]),
     Some([relevance |-> 0, completeness |-> 5]),
     Some([faithfulness |-> 5, relevance |-> 3, completeness |-> 2])}

EvaluateArguments ==
    [output : EvaluateTexts, query : EvaluateTexts, context : EvaluateTexts,
     expected_topics : EvaluateTopics, weights : EvaluateWeights]

(* Inputs of ABTester.evaluate_and_compare *)

\* the outputs of variant A: none, one, two
OutputsA ==
    {<<>>, <<ElectronicsOutput>>, <<ReturnPolicyOutput, ElectronicsOutput>>}

\* the outputs of variant B: one, two, three
OutputsB ==
    {<<ReturnPolicyOutput>>, <<<<"c", "a", "t">>, ReturnPolicyOutput>>,
     <<ElectronicsOutput, <<>>, ReturnPolicyOutput>>}

QueryLists ==
    {<<>>, <<ReturnPolicyOutput, <<>>>>,
     <<ElectronicsOutput, ReturnPolicyOutput, <<"c", "a", "t">>>>}

\* contexts omitted, empty, or of one or three strings
ContextLists ==
    {None, Some(<<>>), Some(<<ReturnPolicyContext>>),
     Some(<<<<>>, ReturnPolicyContext, ReturnPolicyContext>>)}

\* the metric argument: the attributes of the result, and a name it lacks
MetricNames == EvaluationFields \cup {"accuracy"}

\* The names of the placeholders in the enumerated templates.
PlaceholderNames == {<<"a">>, <<"b">>}

\* "{a}", "{b}", "{", "}", "x": what the PromptTemplate texts are made of
TemplatePieces ==
    {<<"{", "a", "}">>, <<"{", "b", "}">>, <<"{">>, <<"}">>, <<"x">>}

TemplateTexts == {Join(pieces, <<>>) : pieces \in SeqsUpTo(TemplatePieces, MaxPieces)}

\* the templates rendered: the enumerated ones and a built-in one
RenderedTemplates ==
    {PromptTemplate("t", text) : text \in TemplateTexts} \cup {BuiltinTemplates[1]}

\* "{{a}}", "{{b}}", "x": what the PromptPattern texts are made of
PatternPieces == {Placeholder(<<"a">>), Placeholder(<<"b">>), <<"x">>}

PatternTexts == {Join(pieces, <<>>) : pieces \in SeqsUpTo(PatternPieces, MaxPieces)}

\* the variables a pattern declares: any of the names, or none
DeclaredVariables == {<<>>, <<<<"a">>>>, <<<<"b">>>>, <<<<"a">>, <<"b">>>>}

RenderedPatterns ==
    {PatternOf(text, variables) : text \in PatternTexts, variables \in DeclaredVariables}

\* "1" and "{{b}}": a plain value and one that reads like a placeholder
KeywordValues == {<<"1">>, Placeholder(<<"b">>)}

\* the keyword arguments of a call: values for none, one or both names
KeywordArguments ==
    {kwargs \in SeqsUpTo(PlaceholderNames \X KeywordValues, 2) :
        Len(kwargs) = 2 => kwargs[1][1] # kwargs[2][1]}

(* Inputs of BenchmarkRunner *)

\* a pattern as the benchmark uses it: its name, template and variables
NamedPattern(name, template, variables) ==
    [name |-> name, template |-> template, variables |-> variables]

\* "direct" renders "{{q}}", "rag" renders "{{q}} days" and needs q and c,
\* and a second pattern named "direct" renders "cat" and needs nothing
BenchmarkPatterns ==
    {NamedPattern("direct", Placeholder(<<"q">>), <<<<"q">>>>),
     NamedPattern("rag", Placeholder(<<"q">>) \o <<" ", "d", "a", "y", "s">>,
                  <<<<"q">>, <<"c">>>>),
     NamedPattern("direct", <<"c", "a", "t">>, <<>>)}

\* {"q": "cat"} and {"q": "days"}
CatVariables == <<<<<<"q">>, <<"c", "a", "t">>>>>>

DaysVariables == <<<<<<"q">>, <<"d", "a", "y", "s">>>>>>

\* A task without variables; one whose output "cat sat" answers the prompt;
\* one whose output "dog" shares nothing with the prompt and misses the
\* one topic; and one with variables and an output for "direct" only, a
\* context, a query and two topics.
BenchmarkTasks ==
    {[name |-> "bare"],
     [name |-> "good", default_variables |-> CatVariables,
      default_output |-> <<"c", "a", "t", " ", "s", "a", "t">>],
     [default_variables |-> CatVariables, default_output |-> <<"d", "o", "g">>,
      expected_topics |-> <<<<"d", "a", "y", "s">>>>],
     [name |-> "full", variables |-> [direct |-> DaysVariables],
      mock_outputs |-> [direct |-> <<"d", "a", "y", "s", " ", "c", "a", "t">>],
      default_output |-> <<"d", "o", "g">>,
      context |-> <<"c", "a", "t", " ", "d", "a", "y", "s">>,
      query |-> <<"d", "a", "y", "s">>,
      expected_topics |-> <<<<"d", "a", "y", "s">>, <<"r", "e", "c", "e", "i", "p", "t">>>>]}

BenchmarkArguments ==
    [patterns : SeqsUpTo(BenchmarkPatterns, 2), tasks : SeqsUpTo(BenchmarkTasks, 2)]

(* Inputs of PromptChain.run *)

\* "{a}x", "{previous_output}y", "{step_0_output}{previous_output}",
\* "{step_1_output}", "{b}" and "z"
ChainTemplates ==
    {PromptTemplate("first", <<"{", "a", "}", "x">>),
     PromptTemplate("next", <<"{", "p", "r", "e", "v", "i", "o", "u", "s", "_", "o", "u", "t", "p", "u", "t", "}", "y">>),
     PromptTemplate("both",
         <<"{", "s", "t", "e", "p", "_", "0", "_", "o", "u", "t", "p", "u", "t", "}", "{", "p", "r", "e", "v", "i", "o", "u", "s", "_", "o", "u", "t", "p", "u", "t", "}">>),
     PromptTemplate("second", <<"{", "s", "t", "e", "p", "_", "1", "_", "o", "u", "t", "p", "u", "t", "}">>),
     PromptTemplate("other", <<"{", "b", "}">>),
     PromptTemplate("plain", <<"z">>)}

Chains == SeqsUpTo(ChainTemplates, MaxChain)

\* {}, {"a": "1"}, {"a": "1", "previous_output": "p"} and
\* {"a": "{b}", "b": "2", "step_1_output": "s"}
InitialVars ==
    {<<>>,
     <<<<<<"a">>, <<"1">>>>>>,
     <<<<<<"a">>, <<"1">>>>, <<PreviousOutput, <<"p">>>>>>,
     <<<<<<"a">>, <<"{", "b", "}">>>>, <<<<"b">>, <<"2">>>>, <<StepOutput(1), <<"s">>>>>>}

CategoryKeys == {"classification", "qa", "custom", "nonexistent_category"}

CustomTemplates == {PromptTemplate("custom", <<"{", "x", "}">>)}

TemplateKeys == {"summarize", "compare", "custom", "nonexistent"}

----------------------------------------------------------------------------
(* The components as state machines.  Each specification runs one          *)
(* component and leaves the others as constructed.                         *)

\* compare's arguments before any call: no scores, the default names
NoArgs ==
    [scores_a |-> <<>>, scores_b |-> <<>>,
     name_a |-> "variant_a", name_b |-> "variant_b"]

RougeIdle ==
    /\ candidate = <<>>
    /\ reference = <<>>
    /\ rouge_op = "none"
    /\ rouge_score = ZeroScore

ABIdle ==
    /\ significance_level = 50000
    /\ ab_op = "none"
    /\ ab_args = NoArgs
    /\ ab_result = Raised("nothing")

\* the optimizer's locals before a call
OptNoCall ==
    /\ opt_pc = "idle"
    /\ opt_args = [method |-> "none", templates |-> <<>>, base_template |-> <<>>,
                   n_iterations |-> 0]
    /\ opt_i = 0
    /\ opt_history = <<>>
    /\ opt_best_template = <<>>
    /\ opt_best_score = 0
    /\ opt_initial_score = 0
    /\ opt_scorer_calls = 0
    /\ opt_result = Raised("nothing")

OptIdle == opt_scorer = "constant_scorer" /\ OptNoCall

FaithfulnessIdle ==
    /\ ev_output = <<>>
    /\ ev_context = <<>>
    /\ ev_op = "none"
    /\ ev_score = RatZero

SimilarityIdle ==
    /\ sim_candidate = <<>>
    /\ sim_reference = <<>>
    /\ sim_sklearn = TRUE
    /\ sim_op = "none"
    /\ sim_result = Similarity("nothing", ZeroSimilarity, "none")

CompletenessIdle ==
    /\ cp_output = <<>>
    /\ cp_topics = <<>>
    /\ cp_op = "none"
    /\ cp_score = RatZero

EvalIdle == FaithfulnessIdle /\ SimilarityIdle /\ CompletenessIdle

EvaluateIdle ==
    /\ el_args = [output |-> <<>>, query |-> <<>>, context |-> <<>>,
                  expected_topics |-> None, weights |-> None]
    /\ el_op = "none"
    /\ el_result = EvaluationResult(0, 0, 0, 0)

RenderIdle ==
    /\ rn_object = PromptTemplate("empty", <<>>)
    /\ rn_kwargs = <<>>
    /\ rn_op = "none"
    /\ rn_result = RenderError("nothing", "", {})

ChainIdle ==
    /\ ch_args = [templates |-> <<>>, initial_vars |-> <<>>]
    /\ ch_initial_vars = <<>>
    /\ ch_pc = "idle"
    /\ ch_i = 0
    /\ ch_current_vars = <<>>
    /\ ch_results = <<>>
    /\ ch_result = RenderError("nothing", "", {})

BenchmarkIdle ==
    /\ bm_args = [patterns |-> <<>>, tasks |-> <<>>]
    /\ bm_op = "none"
    /\ bm_report = BenchmarkReport(<<>>, "", 0, <<>>)

RunnerIdle ==
    /\ run_scorer = "constant_scorer"
    /\ run_args = [template_a |-> <<>>, template_b |-> <<>>, inputs |-> <<>>]
    /\ run_calls = <<>>
    /\ run_op = "none"
    /\ run_result = Raised("nothing")

\* The stores as constructed: no versions, the built-in patterns, categories
\* and templates, and no call made yet.
LookupInit ==
    /\ vm_versions = EmptyDict
    /\ vm_order = <<>>
    /\ vm_active_id = "None"
    /\ pl_patterns = ByName(BuiltinPatterns)
    /\ cr_categories = ByName(BuiltinCategories)
    /\ tr_templates = ByName(BuiltinTemplates)
    /\ lk_call = [object |-> "none", method |-> "none", args |-> <<>>,
                  unknown |-> FALSE]
    /\ lk_result = Raised("nothing")

(* RougeScorer: one call on a drawn pair of texts *)

RougeInit ==
    /\ candidate \in RougeTexts
    /\ reference \in RougeTexts
    /\ rouge_op = "none"
    /\ rouge_score = ZeroScore

Rouge1 ==
    /\ rouge_op = "none"
    /\ rouge_op' = "rouge1"
    /\ rouge_score' = rouge1(candidate, reference)
    /\ UNCHANGED <<candidate, reference>>
    /\ UNCHANGED <<abVars, optVars, evVars, rnVars, elVars,
                 chVars, bmVars, runVars, lookupVars>>

Rouge2 ==
    /\ rouge_op = "none"
    /\ rouge_op' = "rouge2"
    /\ rouge_score' = rouge2(candidate, reference)
    /\ UNCHANGED <<candidate, reference>>
    /\ UNCHANGED <<abVars, optVars, evVars, rnVars, elVars,
                 chVars, bmVars, runVars, lookupVars>>

RougeL ==
    /\ rouge_op = "none"
    /\ rouge_op' = "rouge_l"
    /\ rouge_score' = rouge_l(candidate, reference)
    /\ UNCHANGED <<candidate, reference>>
    /\ UNCHANGED <<abVars, optVars, evVars, rnVars, elVars,
                 chVars, bmVars, runVars, lookupVars>>

RougeNext == Rouge1 \/ Rouge2 \/ RougeL

InitRouge ==
    /\ RougeInit /\ ABIdle /\ OptIdle /\ EvalIdle /\ RenderIdle /\ EvaluateIdle
    /\ LookupInit
    /\ ChainIdle /\ BenchmarkIdle /\ RunnerIdle

SpecRouge == InitRouge /\ [][RougeNext]_vars

(* ABTester: constructed with a significance level, then compare is called *)

ABInit ==
    /\ significance_level \in SignificanceLevels
    /\ ab_op = "none"
    /\ ab_args = NoArgs
    /\ ab_result = Raised("nothing")

Compare ==
    /\ ab_op = "none"
    /\ \E samples \in SamplePairs, names \in NamePairs :
          LET scores_a == samples[1]
              scores_b == samples[2]
          IN  /\ ab_args' = [scores_a |-> scores_a, scores_b |-> scores_b,
                             name_a |-> names[1], name_b |-> names[2]]
              /\ ab_result' = compare(scores_a, scores_b, names[1], names[2])
    /\ ab_op' = "compare"
    /\ UNCHANGED significance_level
    /\ UNCHANGED <<rougeVars, optVars, evVars, rnVars, elVars,
                 chVars, bmVars, runVars, lookupVars>>

ABNext == Compare

InitAB ==
    /\ ABInit /\ RougeIdle /\ OptIdle /\ EvalIdle /\ RenderIdle /\ EvaluateIdle
    /\ LookupInit
    /\ ChainIdle /\ BenchmarkIdle /\ RunnerIdle

SpecAB == InitAB /\ [][ABNext]_vars

(* ABTester: constructed with the default significance level, then         *)
(* evaluate_and_compare is called.                                         *)

EvaluateAndCompare ==
    /\ ab_op = "none"
    /\ \E outputs_a \in OutputsA, outputs_b \in OutputsB, queries \in QueryLists,
          contexts \in ContextLists, metric \in MetricNames :
          /\ ab_args' = [outputs_a |-> outputs_a, outputs_b |-> outputs_b,
                         queries |-> queries, contexts |-> contexts,
                         name_a |-> "variant_a", name_b |-> "variant_b",
                         metric |-> metric]
          /\ ab_result' = evaluate_and_compare(outputs_a, outputs_b, queries, contexts,
                                               "variant_a", "variant_b", metric)
    /\ ab_op' = "evaluate_and_compare"
    /\ UNCHANGED significance_level
    /\ UNCHANGED <<rougeVars, optVars, evVars, rnVars, elVars,
                 chVars, bmVars, runVars, lookupVars>>

EvaluateAndCompareNext == EvaluateAndCompare

InitEvaluateAndCompare ==
    /\ ABIdle /\ RougeIdle /\ OptIdle /\ EvalIdle /\ RenderIdle /\ EvaluateIdle
    /\ LookupInit
    /\ ChainIdle /\ BenchmarkIdle /\ RunnerIdle

SpecEvaluateAndCompare == InitEvaluateAndCompare /\ [][EvaluateAndCompareNext]_vars

(* PromptOptimizer: built with a scorer; random_search or optimize is       *)
(* called and runs its loop one iteration at a time.                       *)

OptInit == opt_scorer \in Scorers /\ OptNoCall

\* lines 30-34 and 78-82: the first template is scored and logged as entry 0
ScoreFirst(template) ==
    \E score \in ScorerOutcomes(opt_scorer, template) :
        /\ opt_history' = <<[iteration |-> 0, template |-> template, score |-> score]>>
        /\ opt_best_template' = template
        /\ opt_best_score' = score
        /\ opt_initial_score' = score
        /\ opt_scorer_calls' = opt_scorer_calls + 1
        /\ opt_i' = 1
        /\ opt_pc' = "loop"

\* A plausible slip: a candidate that ties the best score replaces the best.
ScoreCandidateOnTie(template) ==
    \E score \in ScorerOutcomes(opt_scorer, template) :
        /\ opt_history' = Append(opt_history,
              [iteration |-> opt_i, template |-> template, score |-> score])
        /\ opt_best_template' = IF score >= opt_best_score THEN template ELSE opt_best_template
        /\ opt_best_score' = IF score >= opt_best_score THEN score ELSE opt_best_score
        /\ opt_scorer_calls' = opt_scorer_calls + 1
        /\ opt_i' = opt_i + 1
        /\ UNCHANGED <<opt_initial_score, opt_pc>>

\* lines 38-42 and 86-90: one pass of the loop body on a candidate
ScoreCandidate(template) ==
    \E score \in ScorerOutcomes(opt_scorer, template) :
        /\ opt_history' = Append(opt_history,
              [iteration |-> opt_i, template |-> template, score |-> score])
        /\ opt_best_template' = IF score > opt_best_score THEN template ELSE opt_best_template
        /\ opt_best_score' = IF score > opt_best_score THEN score ELSE opt_best_score
        /\ opt_scorer_calls' = opt_scorer_calls + 1
        /\ opt_i' = opt_i + 1
        /\ UNCHANGED <<opt_initial_score, opt_pc>>

\* lines 44-51 and 92-99: range(1, n_iterations) is exhausted
ReturnResult ==
    /\ opt_pc = "loop"
    /\ ~(opt_i < opt_args.n_iterations)
    /\ opt_result' = OptimizationResult(opt_best_template, opt_best_score,
                                        opt_args.n_iterations, opt_initial_score,
                                        opt_history)
    /\ opt_pc' = "done"
    /\ UNCHANGED <<opt_scorer, opt_args, optLocals>>
    /\ UNCHANGED <<rougeVars, abVars, evVars, rnVars, elVars,
                 chVars, bmVars, runVars, lookupVars>>

\* A plausible slip: the pool is not validated, and templates[0] of an empty
\* pool ends the call with an IndexError.
RandomSearchNoValidation ==
    /\ opt_pc = "idle"
    /\ \E templates \in Pools, n_iterations \in IterationCounts :
          /\ opt_args' = [method |-> "random_search", templates |-> templates,
                          base_template |-> <<>>, n_iterations |-> n_iterations]
          /\ IF templates = <<>>
             THEN /\ opt_result' = Raised("IndexError")
                  /\ opt_pc' = "done"
                  /\ UNCHANGED optLocals
             ELSE /\ ScoreFirst(templates[1])
                  /\ UNCHANGED opt_result
    /\ UNCHANGED opt_scorer
    /\ UNCHANGED <<rougeVars, abVars, evVars, rnVars, elVars,
                 chVars, bmVars, runVars, lookupVars>>

RandomSearch ==
    /\ opt_pc = "idle"
    /\ \E templates \in Pools, n_iterations \in IterationCounts :
          /\ opt_args' = [method |-> "random_search", templates |-> templates,
                          base_template |-> <<>>, n_iterations |-> n_iterations]
          /\ IF templates = <<>>
             THEN /\ opt_result' = Raised("ValueError")
                  /\ opt_pc' = "done"
                  /\ UNCHANGED optLocals
             ELSE /\ ScoreFirst(templates[1])
                  /\ UNCHANGED opt_result
    /\ UNCHANGED opt_scorer
    /\ UNCHANGED <<rougeVars, abVars, evVars, rnVars, elVars,
                 chVars, bmVars, runVars, lookupVars>>

RandomSearchIteration ==
    /\ opt_pc = "loop"
    /\ opt_args.method = "random_search"
    /\ opt_i < opt_args.n_iterations
    /\ \E template \in Range(opt_args.templates) : ScoreCandidate(template)
    /\ UNCHANGED <<opt_scorer, opt_args, opt_result>>
    /\ UNCHANGED <<rougeVars, abVars, evVars, rnVars, elVars,
                 chVars, bmVars, runVars, lookupVars>>

RandomSearchReturn == opt_args.method = "random_search" /\ ReturnResult

Optimize ==
    /\ opt_pc = "idle"
    /\ \E base_template \in BaseTemplates, n_iterations \in IterationCounts :
          /\ opt_args' = [method |-> "optimize", templates |-> <<>>,
                          base_template |-> base_template,
                          n_iterations |-> n_iterations]
          /\ ScoreFirst(base_template)
    /\ UNCHANGED <<opt_scorer, opt_result>>
    /\ UNCHANGED <<rougeVars, abVars, evVars, rnVars, elVars,
                 chVars, bmVars, runVars, lookupVars>>

\* A plausible slip: the previous candidate is mutated, improved or not.
OptimizeIterationFromLast ==
    /\ opt_pc = "loop"
    /\ opt_args.method = "optimize"
    /\ opt_i < opt_args.n_iterations
    /\ \E template \in mutate_template(opt_history[Len(opt_history)].template) :
          ScoreCandidate(template)
    /\ UNCHANGED <<opt_scorer, opt_args, opt_result>>
    /\ UNCHANGED <<rougeVars, abVars, evVars, rnVars, elVars,
                 chVars, bmVars, runVars, lookupVars>>

OptimizeIteration ==
    /\ opt_pc = "loop"
    /\ opt_args.method = "optimize"
    /\ opt_i < opt_args.n_iterations
    /\ \E template \in mutate_template(opt_best_template) : ScoreCandidate(template)
    /\ UNCHANGED <<opt_scorer, opt_args, opt_result>>
    /\ UNCHANGED <<rougeVars, abVars, evVars, rnVars, elVars,
                 chVars, bmVars, runVars, lookupVars>>

OptimizeReturn == opt_args.method = "optimize" /\ ReturnResult

OptNext ==
    \/ RandomSearch
    \/ RandomSearchIteration
    \/ RandomSearchReturn
    \/ Optimize
    \/ OptimizeIteration
    \/ OptimizeReturn

InitOpt ==
    /\ OptInit /\ RougeIdle /\ ABIdle /\ EvalIdle /\ RenderIdle /\ EvaluateIdle
    /\ LookupInit
    /\ ChainIdle /\ BenchmarkIdle /\ RunnerIdle

SpecOpt == InitOpt /\ [][OptNext]_vars

(* PromptEvaluator: one call on a drawn output and context *)

EvalInit ==
    /\ ev_output \in EvalTexts
    /\ ev_context \in EvalTexts
    /\ ev_op = "none"
    /\ ev_score = RatZero

Faithfulness ==
    /\ ev_op = "none"
    /\ ev_op' = "faithfulness"
    /\ ev_score' = faithfulness(ev_output, ev_context)
    /\ UNCHANGED <<ev_output, ev_context>>
    /\ UNCHANGED <<simVars, cpVars>>
    /\ UNCHANGED <<rougeVars, abVars, optVars, rnVars, elVars,
                 chVars, bmVars, runVars, lookupVars>>

EvalNext == Faithfulness

InitEval ==
    /\ EvalInit
    /\ SimilarityIdle /\ CompletenessIdle
    /\ RougeIdle /\ ABIdle /\ OptIdle /\ RenderIdle /\ EvaluateIdle /\ LookupInit
    /\ ChainIdle /\ BenchmarkIdle /\ RunnerIdle

SpecEval == InitEval /\ [][EvalNext]_vars

(* Similarity: one call of SemanticSimilarity.score or of                   *)
(* PromptEvaluator.relevance on two drawn texts. prompt_lab imports        *)
(* scikit-learn when it is loaded, so relevance runs only where the import *)
(* succeeds; SemanticSimilarity imports it inside score.                   *)

SimilarityInit ==
    /\ sim_candidate \in SimilarityTexts
    /\ sim_reference \in SimilarityTexts
    /\ sim_sklearn \in BOOLEAN
    /\ sim_op = "none"
    /\ sim_result = Similarity("nothing", ZeroSimilarity, "none")

SimilarityScore ==
    /\ sim_op = "none"
    /\ sim_op' = "score"
    /\ sim_result' = SemanticSimilarity_score(sim_candidate, sim_reference, sim_sklearn)
    /\ UNCHANGED <<sim_candidate, sim_reference, sim_sklearn>>
    /\ UNCHANGED <<ev_output, ev_context, ev_op, ev_score, cpVars>>
    /\ UNCHANGED <<rougeVars, abVars, optVars, rnVars, elVars,
                 chVars, bmVars, runVars, lookupVars>>

Relevance ==
    /\ sim_op = "none"
    /\ sim_sklearn
    /\ sim_op' = "relevance"
    /\ sim_result' = relevance(sim_candidate, sim_reference)
    /\ UNCHANGED <<sim_candidate, sim_reference, sim_sklearn>>
    /\ UNCHANGED <<ev_output, ev_context, ev_op, ev_score, cpVars>>
    /\ UNCHANGED <<rougeVars, abVars, optVars, rnVars, elVars,
                 chVars, bmVars, runVars, lookupVars>>

SimilarityNext == SimilarityScore \/ Relevance

InitSimilarity ==
    /\ SimilarityInit
    /\ FaithfulnessIdle /\ CompletenessIdle
    /\ RougeIdle /\ ABIdle /\ OptIdle /\ RenderIdle /\ EvaluateIdle /\ LookupInit
    /\ ChainIdle /\ BenchmarkIdle /\ RunnerIdle

SpecSimilarity == InitSimilarity /\ [][SimilarityNext]_vars

(* Completeness: one call on a drawn output and topic list *)

CompletenessInit ==
    /\ cp_output \in CompletenessOutputs
    /\ cp_topics \in TopicLists
    /\ cp_op = "none"
    /\ cp_score = RatZero

Completeness ==
    /\ cp_op = "none"
    /\ cp_op' = "completeness"
    /\ cp_score' = completeness(cp_output, cp_topics)
    /\ UNCHANGED <<cp_output, cp_topics>>
    /\ UNCHANGED <<ev_output, ev_context, ev_op, ev_score, simVars>>
    /\ UNCHANGED <<rougeVars, abVars, optVars, rnVars, elVars,
                 chVars, bmVars, runVars, lookupVars>>

CompletenessNext == Completeness

InitCompleteness ==
    /\ CompletenessInit
    /\ FaithfulnessIdle /\ SimilarityIdle
    /\ RougeIdle /\ ABIdle /\ OptIdle /\ RenderIdle /\ EvaluateIdle /\ LookupInit
    /\ ChainIdle /\ BenchmarkIdle /\ RunnerIdle

SpecCompleteness == InitCompleteness /\ [][CompletenessNext]_vars

(* PromptEvaluator.evaluate: one call on drawn arguments *)

EvaluateInit ==
    /\ el_args \in EvaluateArguments
    /\ el_op = "none"
    /\ el_result = EvaluationResult(0, 0, 0, 0)

Evaluate ==
    /\ el_op = "none"
    /\ el_op' = "evaluate"
    /\ el_result' = evaluate(el_args.output, el_args.query, el_args.context,
                             el_args.expected_topics, el_args.weights)
    /\ UNCHANGED el_args
    /\ UNCHANGED <<rougeVars, abVars, optVars, evVars, rnVars,
                 chVars, bmVars, runVars, lookupVars>>

EvaluateNext == Evaluate

InitEvaluate ==
    /\ EvaluateInit
    /\ RougeIdle /\ ABIdle /\ OptIdle /\ EvalIdle /\ RenderIdle /\ LookupInit
    /\ ChainIdle /\ BenchmarkIdle /\ RunnerIdle

SpecEvaluate == InitEvaluate /\ [][EvaluateNext]_vars

(* Rendering: a PromptTemplate or a PromptPattern is constructed, then     *)
(* format or render is called on it with keyword arguments.                *)

RenderInit ==
    /\ rn_object \in RenderedTemplates \cup RenderedPatterns
    /\ rn_kwargs = <<>>
    /\ rn_op = "none"
    /\ rn_result = RenderError("nothing", "", {})

Format ==
    /\ ~IsPattern(rn_object)
    /\ \E kwargs \in KeywordArguments :
          /\ rn_kwargs' = kwargs
          /\ rn_result' = PromptTemplate_format(rn_object.template, kwargs)
    /\ rn_op' = "format"
    /\ UNCHANGED rn_object
    /\ UNCHANGED <<rougeVars, abVars, optVars, evVars, elVars,
                 chVars, bmVars, runVars, lookupVars>>

Render ==
    /\ IsPattern(rn_object)
    /\ \E kwargs \in KeywordArguments :
          /\ rn_kwargs' = kwargs
          /\ rn_result' = PromptPattern_render(rn_object, kwargs)
    /\ rn_op' = "render"
    /\ UNCHANGED rn_object
    /\ UNCHANGED <<rougeVars, abVars, optVars, evVars, elVars,
                 chVars, bmVars, runVars, lookupVars>>

RenderNext == Format \/ Render

InitRender ==
    /\ RenderInit
    /\ RougeIdle /\ ABIdle /\ OptIdle /\ EvalIdle /\ EvaluateIdle /\ LookupInit
    /\ ChainIdle /\ BenchmarkIdle /\ RunnerIdle

SpecRender == InitRender /\ [][RenderNext]_vars

(* PromptChain: a chain is constructed and run is called with the caller's *)
(* mapping; the loop runs one template at a time.                          *)

ChainInit ==
    /\ ch_args \in [templates : Chains, initial_vars : InitialVars]
    /\ ch_initial_vars = ch_args.initial_vars
    /\ ch_pc = "idle"
    /\ ch_i = 0
    /\ ch_current_vars = <<>>
    /\ ch_results = <<>>
    /\ ch_result = RenderError("nothing", "", {})

\* lines 40-41: results = [], current_vars = initial_vars.copy()
ChainRun ==
    /\ ch_pc = "idle"
    /\ ch_pc' = "loop"
    /\ ch_i' = 0
    /\ ch_results' = <<>>
    /\ ch_current_vars' = ch_initial_vars
    /\ UNCHANGED <<ch_args, ch_initial_vars, ch_result>>
    /\ UNCHANGED <<rougeVars, abVars, optVars, evVars, rnVars, elVars, bmVars, runVars,
                   lookupVars>>

\* A plausible slip: current_vars is the caller's mapping itself and not a
\* copy, so what the loop stores shows in the caller's mapping.
ChainStepOnCallersMapping ==
    /\ ch_pc = "loop"
    /\ ch_i < Len(ch_args.templates)
    /\ LET template == ch_args.templates[ch_i + 1]
           formatted == PromptTemplate_format(template.template, ch_current_vars)
           stored == SetItem(SetItem(ch_current_vars, PreviousOutput, formatted.value),
                             StepOutput(ch_i), formatted.value)
       IN  IF formatted.raised # "no"
           THEN /\ ch_pc' = "done"
                /\ ch_result' = formatted
                /\ UNCHANGED <<ch_i, ch_current_vars, ch_results, ch_initial_vars>>
           ELSE /\ ch_results' = Append(ch_results, formatted.value)
                /\ ch_current_vars' = stored
                /\ ch_initial_vars' = stored
                /\ ch_i' = ch_i + 1
                /\ UNCHANGED <<ch_pc, ch_result>>
    /\ UNCHANGED ch_args
    /\ UNCHANGED <<rougeVars, abVars, optVars, evVars, rnVars, elVars, bmVars, runVars,
                   lookupVars>>

\* lines 43-47: one pass of the loop; an exception of format ends the call
ChainStep ==
    /\ ch_pc = "loop"
    /\ ch_i < Len(ch_args.templates)
    /\ LET template == ch_args.templates[ch_i + 1]
           formatted == PromptTemplate_format(template.template, ch_current_vars)
       IN  IF formatted.raised # "no"
           THEN /\ ch_pc' = "done"
                /\ ch_result' = formatted
                /\ UNCHANGED <<ch_i, ch_current_vars, ch_results>>
           ELSE /\ ch_results' = Append(ch_results, formatted.value)
                /\ ch_current_vars' =
                       SetItem(SetItem(ch_current_vars, PreviousOutput, formatted.value),
                               StepOutput(ch_i), formatted.value)
                /\ ch_i' = ch_i + 1
                /\ UNCHANGED <<ch_pc, ch_result>>
    /\ UNCHANGED <<ch_args, ch_initial_vars>>
    /\ UNCHANGED <<rougeVars, abVars, optVars, evVars, rnVars, elVars, bmVars, runVars,
                   lookupVars>>

\* line 49: return results
ChainReturn ==
    /\ ch_pc = "loop"
    /\ ch_i = Len(ch_args.templates)
    /\ ch_pc' = "done"
    /\ ch_result' = Rendered(ch_results)
    /\ UNCHANGED <<ch_args, ch_initial_vars, ch_i, ch_current_vars, ch_results>>
    /\ UNCHANGED <<rougeVars, abVars, optVars, evVars, rnVars, elVars, bmVars, runVars,
                   lookupVars>>

ChainNext == ChainRun \/ ChainStep \/ ChainReturn

InitChain ==
    /\ ChainInit
    /\ RougeIdle /\ ABIdle /\ OptIdle /\ EvalIdle /\ RenderIdle /\ EvaluateIdle
    /\ BenchmarkIdle /\ RunnerIdle /\ LookupInit

SpecChain == InitChain /\ [][ChainNext]_vars

(* ABTestRunner: built with a scorer, then run is called.                  *)

RunnerInit ==
    /\ run_scorer \in Scorers
    /\ run_args = [template_a |-> <<>>, template_b |-> <<>>, inputs |-> <<>>]
    /\ run_calls = <<>>
    /\ run_op = "none"
    /\ run_result = Raised("nothing")

\* the calls [self.scorer(template) for _ in inputs] and what they returned
ScorerCalls(template, scores) ==
    [k \in 1..Len(scores) |-> [argument |-> template, value |-> scores[k]]]

Run ==
    /\ run_op = "none"
    /\ \E template_a \in RunnerTemplates, template_b \in RunnerTemplates,
          inputs \in RunnerInputs :
          /\ run_args' = [template_a |-> template_a, template_b |-> template_b,
                          inputs |-> inputs]
          /\ IF inputs = <<>>
             THEN /\ run_result' = Raised(ValueError)
                  /\ run_calls' = <<>>
             ELSE \E a_scores \in [1..Len(inputs) -> ScorerOutcomes(run_scorer, template_a)],
                     b_scores \in [1..Len(inputs) -> ScorerOutcomes(run_scorer, template_b)],
                     rounding \in Roundings :
                     /\ run_calls' = ScorerCalls(template_a, a_scores)
                                     \o ScorerCalls(template_b, b_scores)
                     /\ run_result' =
                            Returned(ABTestResult(a_scores, b_scores, inputs, rounding))
    /\ run_op' = "run"
    /\ UNCHANGED run_scorer
    /\ UNCHANGED <<rougeVars, abVars, optVars, evVars, rnVars, elVars, chVars, bmVars,
                   lookupVars>>

RunnerNext == Run

InitRunner ==
    /\ RunnerInit
    /\ RougeIdle /\ ABIdle /\ OptIdle /\ EvalIdle /\ RenderIdle /\ EvaluateIdle
    /\ ChainIdle /\ BenchmarkIdle /\ LookupInit

SpecRunner == InitRunner /\ [][RunnerNext]_vars

(* BenchmarkRunner: run_comparison is called on drawn patterns and tasks.   *)

BenchmarkInit ==
    /\ bm_args \in BenchmarkArguments
    /\ bm_op = "none"
    /\ bm_report = BenchmarkReport(<<>>, "", 0, <<>>)

RunComparison ==
    /\ bm_op = "none"
    /\ bm_op' = "run_comparison"
    /\ LET results == RunAll(bm_args.patterns, bm_args.tasks, 0)
       IN  \E rounded_up \in SUBSET HalfwayAverages(results) :
               bm_report' = ReportOn(results, rounded_up)
    /\ UNCHANGED bm_args
    /\ UNCHANGED <<rougeVars, abVars, optVars, evVars, rnVars, elVars, chVars, runVars,
                   lookupVars>>

BenchmarkNext == RunComparison

InitBenchmark ==
    /\ BenchmarkInit
    /\ RougeIdle /\ ABIdle /\ OptIdle /\ EvalIdle /\ RenderIdle /\ EvaluateIdle
    /\ ChainIdle /\ RunnerIdle /\ LookupInit

SpecBenchmark == InitBenchmark /\ [][BenchmarkNext]_vars

(* The stores: one call at a time on the version manager, the pattern      *)
(* library, the category registry or the template registry.                *)

Called(object, method, args, unknown) ==
    lk_call' = [object |-> object, method |-> method, args |-> args,
                unknown |-> unknown]

otherVars == <<rougeVars, abVars, optVars, evVars, rnVars, elVars, chVars, bmVars,
               runVars>>

CreateVersion ==
    /\ Len(vm_order) < MaxVersions
    /\ \E template \in VersionTemplates, version_id \in VersionIds :
          LET version == PromptVersion(version_id, template, EmptyDict)
          IN  /\ vm_versions' = DictSet(vm_versions, version_id, version)
              /\ vm_order' = Append(vm_order, version_id)
              /\ vm_active_id' = version_id
              /\ Called("PromptVersionManager", "create_version", <<template>>, FALSE)
              /\ lk_result' = ReturnedAs("PromptVersion", version)
    /\ UNCHANGED <<pl_patterns, cr_categories, tr_templates>>
    /\ UNCHANGED otherVars

GetVersion ==
    /\ \E version_id \in VersionKeys :
          /\ Called("PromptVersionManager", "get_version", <<version_id>>,
                    version_id \notin DOMAIN vm_versions)
          /\ lk_result' = get_version(vm_versions, version_id)
    /\ UNCHANGED storeVars
    /\ UNCHANGED otherVars

Diff ==
    /\ \E version_a \in VersionKeys, version_b \in VersionKeys :
          /\ Called("PromptVersionManager", "diff", <<version_a, version_b>>,
                    version_a \notin DOMAIN vm_versions
                        \/ version_b \notin DOMAIN vm_versions)
          /\ lk_result' = diff(vm_versions, version_a, version_b)
    /\ UNCHANGED storeVars
    /\ UNCHANGED otherVars

ListVersions ==
    /\ Called("PromptVersionManager", "list_versions", <<>>, FALSE)
    /\ lk_result' = list_versions(vm_versions, vm_order)
    /\ UNCHANGED storeVars
    /\ UNCHANGED otherVars

ActiveVersion ==
    /\ Called("PromptVersionManager", "active_version", <<>>, FALSE)
    /\ lk_result' = active_version(vm_versions, vm_active_id)
    /\ UNCHANGED storeVars
    /\ UNCHANGED otherVars

\* A plausible slip: rollback returns the version and leaves the active
\* pointer where it was.
RollbackKeepsActive ==
    /\ \E version_id \in VersionKeys :
          /\ Called("PromptVersionManager", "rollback", <<version_id>>,
                    version_id \notin DOMAIN vm_versions)
          /\ lk_result' = rollback(vm_versions, version_id)
    /\ UNCHANGED storeVars
    /\ UNCHANGED otherVars

\* A plausible slip: the active pointer is assigned before the id is looked
\* up, so a failed rollback has moved it.
RollbackAssignsFirst ==
    /\ \E version_id \in VersionKeys :
          /\ Called("PromptVersionManager", "rollback", <<version_id>>,
                    version_id \notin DOMAIN vm_versions)
          /\ lk_result' = rollback(vm_versions, version_id)
          /\ vm_active_id' = version_id
    /\ UNCHANGED <<vm_versions, vm_order, pl_patterns, cr_categories, tr_templates>>
    /\ UNCHANGED otherVars

\* lines 86-92
Rollback ==
    /\ \E version_id \in VersionKeys :
          /\ Called("PromptVersionManager", "rollback", <<version_id>>,
                    version_id \notin DOMAIN vm_versions)
          /\ lk_result' = rollback(vm_versions, version_id)
          /\ vm_active_id' = IF version_id \in DOMAIN vm_versions THEN version_id
                             ELSE vm_active_id
    /\ UNCHANGED <<vm_versions, vm_order, pl_patterns, cr_categories, tr_templates>>
    /\ UNCHANGED otherVars

RecordPerformance ==
    /\ \E version_id \in VersionKeys, metrics \in MetricsInputs :
          /\ Called("PromptVersionManager", "record_performance",
                    <<version_id, metrics>>, version_id \notin DOMAIN vm_versions)
          /\ IF version_id \notin DOMAIN vm_versions
             THEN /\ lk_result' = ReturnedAs("bool", FALSE)
                  /\ UNCHANGED vm_versions
             ELSE /\ vm_versions' =
                        [vm_versions EXCEPT ![version_id].performance =
                            DictUpdate(@, metrics)]
                  /\ lk_result' = ReturnedAs("bool", TRUE)
    /\ UNCHANGED <<vm_order, vm_active_id, pl_patterns, cr_categories, tr_templates>>
    /\ UNCHANGED otherVars

PatternGet ==
    /\ \E name \in PatternKeys :
          /\ Called("PatternLibrary", "get", <<name>>, name \notin DOMAIN pl_patterns)
          /\ lk_result' = PatternLibrary_get(pl_patterns, name)
    /\ UNCHANGED storeVars
    /\ UNCHANGED otherVars

PatternRegister ==
    /\ \E pattern \in CustomPatterns :
          /\ pl_patterns' = DictSet(pl_patterns, pattern.name, pattern)
          /\ Called("PatternLibrary", "register", <<pattern.name>>, FALSE)
    /\ lk_result' = ReturnedNone
    /\ UNCHANGED <<vm_versions, vm_order, vm_active_id, cr_categories, tr_templates>>
    /\ UNCHANGED otherVars

CategoryGet ==
    /\ \E name \in CategoryKeys :
          /\ Called("CategoryRegistry", "get", <<name>>, name \notin DOMAIN cr_categories)
          /\ lk_result' = CategoryRegistry_get(cr_categories, name)
    /\ UNCHANGED storeVars
    /\ UNCHANGED otherVars

CategoryGetExamples ==
    /\ \E category_name \in CategoryKeys :
          /\ Called("CategoryRegistry", "get_examples", <<category_name>>,
                    category_name \notin DOMAIN cr_categories)
          /\ lk_result' = get_examples(cr_categories, category_name)
    /\ UNCHANGED storeVars
    /\ UNCHANGED otherVars

CategoryRegister ==
    /\ \E category \in CustomCategories :
          /\ cr_categories' = DictSet(cr_categories, category.name, category)
          /\ Called("CategoryRegistry", "register", <<category.name>>, FALSE)
    /\ lk_result' = ReturnedNone
    /\ UNCHANGED <<vm_versions, vm_order, vm_active_id, pl_patterns, tr_templates>>
    /\ UNCHANGED otherVars

TemplateGet ==
    /\ \E name \in TemplateKeys :
          /\ Called("TemplateRegistry", "get", <<name>>, name \notin DOMAIN tr_templates)
          /\ lk_result' = TemplateRegistry_get(tr_templates, name)
    /\ UNCHANGED storeVars
    /\ UNCHANGED otherVars

TemplateGetBuiltin ==
    /\ \E name \in TemplateKeys :
          /\ Called("TemplateRegistry", "get_builtin", <<name>>,
                    name \notin Range(builtin_names))
          /\ lk_result' = get_builtin(tr_templates, name)
    /\ UNCHANGED storeVars
    /\ UNCHANGED otherVars

TemplateRegister ==
    /\ \E template \in CustomTemplates :
          /\ tr_templates' = DictSet(tr_templates, template.name, template)
          /\ Called("TemplateRegistry", "register", <<template.name>>, FALSE)
    /\ lk_result' = ReturnedNone
    /\ UNCHANGED <<vm_versions, vm_order, vm_active_id, pl_patterns, cr_categories>>
    /\ UNCHANGED otherVars

LookupNext ==
    \/ CreateVersion
    \/ GetVersion
    \/ Diff
    \/ Rollback
    \/ RecordPerformance
    \/ ListVersions
    \/ ActiveVersion
    \/ PatternGet
    \/ PatternRegister
    \/ CategoryGet
    \/ CategoryGetExamples
    \/ CategoryRegister
    \/ TemplateGet
    \/ TemplateGetBuiltin
    \/ TemplateRegister

InitLookup ==
    /\ LookupInit /\ RougeIdle /\ ABIdle /\ OptIdle /\ EvalIdle /\ RenderIdle /\ EvaluateIdle
    /\ ChainIdle /\ BenchmarkIdle /\ RunnerIdle

SpecLookup == InitLookup /\ [][LookupNext]_vars

----------------------------------------------------------------------------
(* Helpers for the statements about the scorers *)

OneScore == [precision |-> RatOne, recall |-> RatOne, f1 |-> RatOne]

\* a is a (not necessarily contiguous) subsequence of b
RECURSIVE IsSubsequence(_, _)
IsSubsequence(a, b) ==
    IF a = <<>> THEN TRUE
    ELSE IF b = <<>> THEN FALSE
    ELSE IF Head(a) = Head(b) THEN IsSubsequence(Tail(a), Tail(b))
    ELSE IsSubsequence(a, Tail(b))

\* a occurs in b as a run of adjacent tokens
IsContiguousRun(a, b) ==
    \E k \in 0..(Len(b) - Len(a)) : SubSeq(b, k + 1, k + Len(a)) = a

Occurrences(x, s) == Cardinality({i \in DOMAIN s : s[i] = x})

RECURSIVE SumMinCounts(_, _, _)
SumMinCounts(grams, c, r) ==
    IF grams = {} THEN 0
    ELSE LET g == CHOOSE x \in grams : TRUE
         IN  Min(Occurrences(g, c), Occurrences(g, r)) + SumMinCounts(grams \ {g}, c, r)

\* The n-gram score as the design states it, from occurrence counts.
ReferenceNgramScore(cand, ref, n) ==
    LET ct == _tokenize(cand)
        rt == _tokenize(ref)
    IN  IF ct = <<>> \/ rt = <<>> \/ Len(ct) < n \/ Len(rt) < n THEN ZeroScore
        ELSE LET c == [i \in 1..(Len(ct) - n + 1) |-> SubSeq(ct, i, i + n - 1)]
                 r == [i \in 1..(Len(rt) - n + 1) |-> SubSeq(rt, i, i + n - 1)]
                 o == SumMinCounts({c[i] : i \in DOMAIN c}, c, r)
             IN  [precision |-> Rat(o, Len(c)),
                  recall |-> Rat(o, Len(r)),
                  f1 |-> IF o = 0 THEN RatZero ELSE Rat(2 * o, Len(c) + Len(r))]

TokenSet(text) == {_tokenize(text)[i] : i \in DOMAIN _tokenize(text)}

----------------------------------------------------------------------------
(* Statements about RougeScorer *)

\* C5 as stated: for all texts x, rouge1(x, x) has precision, recall and f1
\* equal to 1.
C5_AllTexts ==
    (rouge_op = "rouge1" /\ candidate = reference) => rouge_score = OneScore

\* C5 amended: for all texts x holding at least one token, rouge1(x, x) has
\* precision, recall and f1 equal to 1.
C5_IdenticalNonEmpty ==
    (rouge_op = "rouge1" /\ candidate = reference /\ _tokenize(candidate) # <<>>)
        => rouge_score = OneScore

C5_Witness ==
    /\ rouge_op = "rouge1"
    /\ candidate = reference
    /\ Len(_tokenize(candidate)) >= 2
    /\ Cardinality(TokenSet(candidate)) < Len(_tokenize(candidate))
    /\ rouge_score = OneScore

\* C6 as stated: for rouge1 and rouge2, a candidate whose tokens are a
\* subsequence of the reference's tokens scores precision 1 and recall < 1.
C6_AnySubsequence ==
    (rouge_op \in {"rouge1", "rouge2"}
        /\ IsSubsequence(_tokenize(candidate), _tokenize(reference)))
        => (rouge_score.precision = RatOne /\ RatLess(rouge_score.recall, RatOne))

\* C6 amended: rouge1 scores precision 1 and recall < 1 whenever the
\* candidate's tokens are a non-empty subsequence of the reference's tokens
\* and fewer than them; rouge2 does so whenever the candidate has at least
\* two tokens, fewer than the reference, and they occur in the reference as
\* a run of adjacent tokens.
C6_ProperSubsequence ==
    LET c == _tokenize(candidate)
        r == _tokenize(reference)
    IN  /\ (rouge_op = "rouge1" /\ c # <<>> /\ Len(c) < Len(r) /\ IsSubsequence(c, r))
            => (rouge_score.precision = RatOne /\ RatLess(rouge_score.recall, RatOne))
        /\ (rouge_op = "rouge2" /\ Len(c) >= 2 /\ Len(c) < Len(r) /\ IsContiguousRun(c, r))
            => (rouge_score.precision = RatOne /\ RatLess(rouge_score.recall, RatOne))

C6_Witness ==
    /\ rouge_op = "rouge1"
    /\ candidate = TheCatSat
    /\ reference = TheCatSatOnTheMat
    /\ rouge_score = [precision |-> RatOne, recall |-> Rat(1, 2), f1 |-> Rat(2, 3)]

\* C7: for n in {1, 2} and all texts, _ngram_score equals the reference
\* operator (zero score when either side has no n-gram; otherwise overlap is
\* the sum over distinct n-grams of the smaller occurrence count, precision
\* and recall divide it by the two n-gram totals, f1 is their harmonic mean
\* or 0), and texts with disjoint vocabularies score all zeros.
C7_MatchesReference ==
    /\ rouge_op = "rouge1" => rouge_score = ReferenceNgramScore(candidate, reference, 1)
    /\ rouge_op = "rouge2" => rouge_score = ReferenceNgramScore(candidate, reference, 2)
    /\ (rouge_op \in {"rouge1", "rouge2"}
            /\ TokenSet(candidate) \cap TokenSet(reference) = {})
        => rouge_score = ZeroScore

\* a candidate bigram repeated more often than the reference holds it
C7_Witness ==
    /\ rouge_op = "rouge2"
    /\ LET c == _ngrams(_tokenize(candidate), 2)
           r == _ngrams(_tokenize(reference), 2)
       IN  \E i \in DOMAIN c :
              /\ Occurrences(c[i], r) >= 1
              /\ Occurrences(c[i], c) > Occurrences(c[i], r)
    /\ RatLess(RatZero, rouge_score.precision)
    /\ RatLess(rouge_score.precision, RatOne)

\* C8: swapping candidate and reference in rouge_l swaps precision and recall.
C8_SwapSwapsPrecisionRecall ==
    rouge_op = "rouge_l" =>
        /\ rouge_score.precision = rouge_l(reference, candidate).recall
        /\ rouge_score.recall = rouge_l(reference, candidate).precision

C8_Witness ==
    /\ rouge_op = "rouge_l"
    /\ Len(_tokenize(candidate)) # Len(_tokenize(reference))
    /\ RatLess(RatZero, rouge_score.precision)
    /\ RatLess(rouge_score.precision, RatOne)
    /\ rouge_score.precision # rouge_score.recall

\* C9 as stated: rouge_l's f1 is the same in both argument orders when the
\* token sequences are equally long, and differs when their lengths differ
\* and they share a token.
C9_F1DiffersOnUnequalLengths ==
    rouge_op = "rouge_l" =>
        LET c == _tokenize(candidate)
            r == _tokenize(reference)
        IN  /\ Len(c) = Len(r) => rouge_score.f1 = rouge_l(reference, candidate).f1
            /\ (Len(c) # Len(r) /\ TokenSet(candidate) \cap TokenSet(reference) # {})
                => rouge_score.f1 # rouge_l(reference, candidate).f1

\* C9 amended: rouge_l's f1 is the same in both argument orders for all
\* token sequences, whatever their lengths.
C9_F1SwapInvariant ==
    rouge_op = "rouge_l" => rouge_score.f1 = rouge_l(reference, candidate).f1

C9_Witness ==
    /\ rouge_op = "rouge_l"
    /\ Len(_tokenize(candidate)) # Len(_tokenize(reference))
    /\ TokenSet(candidate) \cap TokenSet(reference) # {}
    /\ RatLess(RatZero, rouge_score.f1)
    /\ rouge_score.f1 = rouge_l(reference, candidate).f1

\* the tokens of a at the positions in picked, in their order in a
Pick(a, picked) ==
    [k \in 1..Cardinality(picked) |->
        a[CHOOSE i \in picked : Cardinality({j \in picked : j <= i}) = k]]

\* the length of a longest common subsequence of a and b, by trying every
\* choice of positions of a
LongestCommon(a, b) ==
    LET common == {picked \in SUBSET (DOMAIN a) : IsSubsequence(Pick(a, picked), b)}
    IN  CHOOSE n \in 0..Len(a) :
            /\ \E picked \in common : Cardinality(picked) = n
            /\ \A picked \in common : Cardinality(picked) <= n

\* C20: _lcs_length of the two token sequences is the length of a longest
\* common subsequence (0 when either is empty); rouge_l returns the all-zero
\* score when either text has no tokens, and otherwise precision
\* LCS / len(candidate tokens), recall LCS / len(reference tokens) and f1
\* 2PR / (P + R), or 0 when P + R is 0; so a candidate whose tokens occur in
\* the reference in the same order, contiguously or not, gets precision 1.
C20_RougeLFromLcs ==
    rouge_op = "rouge_l" =>
        LET c == _tokenize(candidate)
            r == _tokenize(reference)
            lcs == LongestCommon(c, r)
        IN  /\ _lcs_length(c, r) = lcs
            /\ (c = <<>> \/ r = <<>>) => (lcs = 0 /\ rouge_score = ZeroScore)
            /\ (c # <<>> /\ r # <<>>) =>
                  /\ rouge_score.precision = Rat(lcs, Len(c))
                  /\ rouge_score.recall = Rat(lcs, Len(r))
                  /\ rouge_score.f1 = IF lcs = 0 THEN RatZero
                                      ELSE Rat(2 * lcs, Len(c) + Len(r))
            /\ (c # <<>> /\ IsSubsequence(c, r)) => rouge_score.precision = RatOne

\* rouge_l has scored a candidate of several tokens that occur in the
\* reference in order but not next to each other, with precision 1
C20_Witness ==
    /\ rouge_op = "rouge_l"
    /\ Len(_tokenize(candidate)) >= 2
    /\ IsSubsequence(_tokenize(candidate), _tokenize(reference))
    /\ ~IsContiguousRun(_tokenize(candidate), _tokenize(reference))
    /\ rouge_score.precision = RatOne
    /\ RatLess(rouge_score.recall, RatOne)

----------------------------------------------------------------------------
(* Statements about ABTester.compare *)

Compared == ab_op = "compare"

\* The standard error of the difference is zero: a sample is empty, or both
\* samples have zero variance.
ZeroStandardError ==
    LET va == _compute_variant(ab_args.name_a, ab_args.scores_a)
        vb == _compute_variant(ab_args.name_b, ab_args.scores_b)
    IN  va.n = 0 \/ vb.n = 0 \/ (va.std = 0 /\ vb.std = 0)

\* C3 as stated: on two samples whose standard error is zero compare does
\* not raise and reports z_score == 0.0 and p_value == 0.0.
C3_ZeroErrorZeroPValue ==
    (Compared /\ ZeroStandardError) =>
        /\ ab_result.raised = "no"
        /\ ab_result.z_score = 0
        /\ ab_result.p_value = 0

\* C3 as the code has it: on two samples whose standard error is zero
\* compare does not raise and reports z_score == 0.0 and p_value == 1.0, the
\* two-tailed p-value of a zero z-score.
C3_ZeroErrorUnitPValue ==
    (Compared /\ ZeroStandardError) =>
        /\ ab_result.raised = "no"
        /\ ab_result.z_score = 0
        /\ ab_result.p_value = E4

\* Two constant samples with different means: the standard error is zero
\* although the means differ.
C3_Witness ==
    /\ Compared
    /\ ZeroStandardError
    /\ ab_args.scores_a = <<10, 10>>
    /\ ab_args.scores_b = <<0, 0>>
    /\ ab_result.raised = "no"
    /\ ab_result.z_score = 0
    /\ ab_result.p_value = E4

\* C10: the winner is one of the two variant names only when the comparison
\* is significant; otherwise the winner is "tie" and the lift is 0.
C10_WinnerOnlyIfSignificant ==
    (Compared /\ ab_result.raised = "no") =>
        /\ ab_result.winner \in {ab_args.name_a, ab_args.name_b}
              => ab_result.is_significant
        /\ ~ab_result.is_significant
              => ab_result.winner = "tie" /\ ab_result.lift = 0

\* A higher mean for A that is not significant is reported as a tie, and a
\* significant one names A.
C10_Witness ==
    /\ Compared
    /\ ab_result.raised = "no"
    /\ ab_result.variant_a.mean > ab_result.variant_b.mean
    /\ ~ab_result.is_significant
    /\ ab_result.winner = "tie"
    /\ ab_result.lift = 0
    /\ ab_result.z_score > E4

\* C11 as stated: comparing two identical samples yields winner "tie" and
\* z_score 0.0 for every sample and every significance level.
C11_IdenticalSamplesTie ==
    (Compared /\ ab_args.scores_a = ab_args.scores_b) =>
        /\ ab_result.raised = "no"
        /\ ab_result.winner = "tie"
        /\ ab_result.z_score = 0

\* C11 as the code has it: comparing two identical samples yields z_score
\* 0.0 and p_value 1.0; the winner is "tie" for every significance level up
\* to 1.0, and for a level above 1.0 the result is significant and names the
\* second variant the winner, with lift 0.
C11_IdenticalSamplesTieUpToOne ==
    (Compared /\ ab_args.scores_a = ab_args.scores_b) =>
        /\ ab_result.raised = "no"
        /\ ab_result.z_score = 0
        /\ ab_result.p_value = E4
        /\ significance_level <= E6 =>
              ~ab_result.is_significant /\ ab_result.winner = "tie"
        /\ significance_level > E6 =>
              /\ ab_result.is_significant
              /\ ab_result.winner = ab_args.name_b
              /\ ab_result.lift = 0

\* Two identical samples of non-zero variance compared at level 1.0
C11_Witness ==
    /\ Compared
    /\ ab_args.scores_a = ab_args.scores_b
    /\ ab_result.raised = "no"
    /\ ab_result.variant_a.std > 0
    /\ significance_level = E6
    /\ ab_result.winner = "tie"
    /\ ab_result.z_score = 0

\* The means of the winner and the loser of a result, and their names
HigherMean == Max(ab_result.variant_a.mean, ab_result.variant_b.mean)

LowerMean == Min(ab_result.variant_a.mean, ab_result.variant_b.mean)

HigherMeanName ==
    IF ab_result.variant_a.mean > ab_result.variant_b.mean
    THEN ab_args.name_a ELSE ab_args.name_b

\* lift, in hundredths of a percent, is (higher - lower) / lower * 100
\* rounded to 2 places
IsRoundedLift(lift) ==
    LET exact == (HigherMean - LowerMean) * E4
    IN  /\ exact \div LowerMean <= lift
        /\ lift <= exact \div LowerMean + 1
        /\ 2 * (exact % LowerMean) < LowerMean => lift = exact \div LowerMean
        /\ 2 * (exact % LowerMean) > LowerMean => lift = exact \div LowerMean + 1

\* C12 as stated: a significant result names the variant with the strictly
\* higher mean, its lift is (winner_mean - loser_mean) / loser_mean * 100
\* rounded to 2 places, or 0 when loser_mean <= 0, and with a positive loser
\* mean the lift is greater than 0.
C12_SignificantLiftPositive ==
    (Compared /\ ab_result.raised = "no" /\ ab_result.is_significant) =>
        /\ HigherMean > LowerMean
        /\ ab_result.winner = HigherMeanName
        /\ LowerMean <= 0 => ab_result.lift = 0
        /\ LowerMean > 0 => IsRoundedLift(ab_result.lift) /\ ab_result.lift > 0

\* C12 as the code has it: a significant result names the variant with the
\* higher mean, and the second variant when the means are equal (which a
\* level above 1.0 allows); its lift is the rounded quotient, or 0 when
\* loser_mean <= 0, and is never negative, but it may round to 0.00; at a
\* level up to 1.0 a significant result has a strictly higher mean.
C12_SignificantLiftRounded ==
    (Compared /\ ab_result.raised = "no" /\ ab_result.is_significant) =>
        /\ ab_result.winner = HigherMeanName
        /\ significance_level <= E6 => HigherMean > LowerMean
        /\ LowerMean <= 0 => ab_result.lift = 0
        /\ LowerMean > 0 => IsRoundedLift(ab_result.lift) /\ ab_result.lift >= 0

\* At the default level a significantly higher mean near 2000 whose lift
\* rounds to 0.00
C12_Witness ==
    /\ Compared
    /\ ab_result.raised = "no"
    /\ significance_level = 50000
    /\ ab_result.is_significant
    /\ ab_result.variant_a.mean > ab_result.variant_b.mean
    /\ ab_result.variant_b.mean > 0
    /\ ab_result.winner = ab_args.name_a
    /\ ab_result.lift = 0

----------------------------------------------------------------------------
(* Statements about ABTester.evaluate_and_compare *)

\* the contexts the outputs are paired with: one "" per query when the
\* argument is omitted or empty
PairedContexts(args) ==
    IF args.contexts.kind = "None" \/ args.contexts.value = <<>>
    THEN [k \in 1..Len(args.queries) |-> <<>>]
    ELSE args.contexts.value

\* the length of the shortest of the four lists
ShortestLength(args) ==
    Min(Min(Len(args.outputs_a), Len(args.outputs_b)),
        Min(Len(args.queries), Len(PairedContexts(args))))

\* the named metric of the evaluation of output k of a list
MetricOf(outputs, args, k) ==
    evaluate(outputs[k], args.queries[k], PairedContexts(args)[k], None, None)[args.metric]

\* C25: evaluate_and_compare called with the name of a metric returns a
\* result in which both variants have as many scores as the shortest of
\* outputs_a, outputs_b, queries and contexts is long (contexts standing for
\* one "" per query when omitted or empty), whatever the other lengths are,
\* and score k of a variant is that metric of the evaluation of the
\* variant's output k against query k and context k.
C25_OneScorePerPairedItem ==
    (ab_op = "evaluate_and_compare" /\ ab_args.metric \in EvaluationFields) =>
        LET n == ShortestLength(ab_args)
        IN  /\ ab_result.raised = "no"
            /\ ab_result.variant_a.n = n
            /\ ab_result.variant_b.n = n
            /\ Len(ab_result.variant_a.scores) = n
            /\ Len(ab_result.variant_b.scores) = n
            /\ \A k \in 1..n :
                  /\ ab_result.variant_a.scores[k] = MetricOf(ab_args.outputs_a, ab_args, k)
                  /\ ab_result.variant_b.scores[k] = MetricOf(ab_args.outputs_b, ab_args, k)

\* Lists of four different lengths, contexts given as an empty list: two
\* items are paired, a third output and a third query are dropped, and the
\* two variants score differently.
C25_Witness ==
    /\ ab_op = "evaluate_and_compare"
    /\ ab_args.metric = "overall"
    /\ ab_args.contexts = Some(<<>>)
    /\ Len(ab_args.outputs_a) = 2
    /\ Len(ab_args.outputs_b) = 3
    /\ Len(ab_args.queries) = 3
    /\ ab_result.raised = "no"
    /\ ab_result.variant_a.n = 2
    /\ ab_result.variant_b.n = 2
    /\ ab_result.variant_a.scores # ab_result.variant_b.scores

----------------------------------------------------------------------------
(* Statements about PromptOptimizer *)

Searched == opt_pc = "done" /\ opt_result.raised = "no"

\* C1: for every non-negative n, random_search on a non-empty pool and
\* optimize return a result whose history has exactly n entries and whose
\* iterations field is n.
C1_HistoryHasNEntries ==
    Searched =>
        /\ Len(opt_result.history) = opt_args.n_iterations
        /\ opt_result.iterations = opt_args.n_iterations

\* A search asked for zero iterations still scores and logs the first
\* template: one history entry against an iterations field of 0.
C1_Witness ==
    /\ Searched
    /\ opt_args.n_iterations = 0
    /\ opt_result.iterations = 0
    /\ Len(opt_result.history) = 1

\* random_search was called on an empty pool
EmptyPoolSearch ==
    /\ opt_args.method = "random_search"
    /\ opt_args.templates = <<>>

\* C14: random_search on an empty pool ends at once with a ValueError, for
\* every n_iterations: the scorer has not been called, nothing is logged and
\* no result is produced.
C14_EmptyPoolRaises ==
    EmptyPoolSearch =>
        /\ opt_pc = "done"
        /\ opt_result = Raised("ValueError")
        /\ opt_scorer_calls = 0
        /\ opt_history = <<>>

C14_Witness ==
    /\ EmptyPoolSearch
    /\ opt_args.n_iterations = MaxIterations
    /\ opt_result = Raised("ValueError")
    /\ opt_scorer_calls = 0

\* the highest score among the first n entries of a history
BestScoreOf(history, n) ==
    CHOOSE v \in {history[k].score : k \in 1..n} :
        \A k \in 1..n : history[k].score <= v

\* the earliest of the first n entries of a history that has that score
EarliestBest(history, n) ==
    CHOOSE k \in 1..n :
        /\ history[k].score = BestScoreOf(history, n)
        /\ \A j \in 1..(k - 1) : history[j].score # BestScoreOf(history, n)

\* C21: in every result of random_search and optimize, best_score is the
\* highest score in the history and best_template is the earliest logged
\* candidate with that score; so best_score is at least the score of the
\* first entry, and random_search's best_template is a member of the pool.
C21_BestIsEarliestMaximum ==
    Searched =>
        LET history == opt_result.history
            n == Len(history)
        IN  /\ n >= 1
            /\ opt_result.best_score = BestScoreOf(history, n)
            /\ opt_result.best_template = history[EarliestBest(history, n)].template
            /\ opt_result.best_score >= history[1].score
            /\ opt_args.method = "random_search" =>
                  opt_result.best_template \in Range(opt_args.templates)

\* A search has returned after a later candidate improved on the first one
\* and a still later, different candidate tied it: the earlier one is kept.
C21_Witness ==
    /\ Searched
    /\ Len(opt_result.history) = 3
    /\ opt_result.history[2].score > opt_result.history[1].score
    /\ opt_result.history[3].score = opt_result.history[2].score
    /\ opt_result.history[3].template # opt_result.history[2].template
    /\ opt_result.best_template = opt_result.history[2].template

\* C22: improvement_pct of every result is (best_score - initial_score) /
\* initial_score * 100 with initial_score the score of history entry 0, and
\* 0 when that score is 0; when the scorer gave the same score on every call
\* it is 0.
C22_ImprovementOverFirstScore ==
    Searched =>
        LET history == opt_result.history
            initial_score == history[1].score
        IN  /\ initial_score # 0 =>
                  opt_result.improvement_pct =
                      Rat((opt_result.best_score - initial_score) * 100, initial_score)
            /\ initial_score = 0 => opt_result.improvement_pct = RatZero
            /\ (\A k \in DOMAIN history : history[k].score = initial_score) =>
                  opt_result.improvement_pct = RatZero
            /\ opt_scorer = "constant_scorer" => opt_result.improvement_pct = RatZero

\* A search has returned a best score of twice a non-zero first score: an
\* improvement of 100 percent.
C22_Witness ==
    /\ Searched
    /\ opt_result.history[1].score = 1
    /\ opt_result.best_score = 2
    /\ opt_result.improvement_pct = Rat(100, 1)

\* C29: during and after optimize, the candidate logged at iteration i >= 1
\* is a mutation of the best template among the entries logged before it,
\* the entries carry the iterations 0, 1, 2, ... in order, entry 0 is the
\* base template, and the scorer has been called once per entry.
C29_HillClimbOnRunningBest ==
    (opt_args.method = "optimize" /\ opt_pc \in {"loop", "done"}) =>
        /\ Len(opt_history) >= 1
        /\ opt_history[1].template = opt_args.base_template
        /\ \A k \in DOMAIN opt_history : opt_history[k].iteration = k - 1
        /\ \A k \in 2..Len(opt_history) :
              opt_history[k].template \in
                  mutate_template(opt_history[EarliestBest(opt_history, k - 1)].template)
        /\ opt_scorer_calls = Len(opt_history)
        /\ opt_pc = "done" => opt_result.history = opt_history

\* optimize has logged a candidate that differs from the base and did not
\* improve on it, and then a candidate that is a mutation of the base but
\* not of that candidate.
C29_Witness ==
    /\ opt_args.method = "optimize"
    /\ Len(opt_history) = 3
    /\ opt_history[2].template # opt_history[1].template
    /\ opt_history[2].score <= opt_history[1].score
    /\ opt_history[3].template \in mutate_template(opt_history[1].template)
    /\ opt_history[3].template \notin mutate_template(opt_history[2].template)

----------------------------------------------------------------------------
(* Statements about PromptEvaluator *)

ElectronicsScenario ==
    /\ ev_op = "faithfulness"
    /\ ev_output = ElectronicsOutput
    /\ ev_context = ReturnPolicyContext

\* C2 as stated: the faithfulness of "Electronics can be returned within 30
\* days." to "Return policy: 30 days for electronics, 60 days for clothing."
\* is greater than 0.5.
C2_ScenarioAboveHalf ==
    ElectronicsScenario => RatLess(Rat(1, 2), ev_score)

\* C2 as the code has it: the faithfulness in that scenario is 2/5, the two
\* keywords "electronics" and "days" out of the output's five.
C2_ScenarioIsTwoFifths ==
    ElectronicsScenario => ev_score = Rat(2, 5)

C2_Witness ==
    /\ ElectronicsScenario
    /\ Range(PromptEvaluator_tokenize(ev_output)) \cap Range(PromptEvaluator_tokenize(ev_context))
          = {<<"e", "l", "e", "c", "t", "r", "o", "n", "i", "c", "s">>, <<"d", "a", "y", "s">>}
    /\ Cardinality(Range(PromptEvaluator_tokenize(ev_output))) = 5
    /\ ev_score.n = 2
    /\ ev_score.d = 5

\* K(text): the maximal runs of word characters of the lowercased text that
\* are longer than two characters, as a set
KeywordSet(text) ==
    LET lower == Lower(text)
        IsRun(i, j) ==
            /\ \A k \in i..j : IsWordChar(lower[k])
            /\ (i = 1 \/ ~IsWordChar(lower[i - 1]))
            /\ (j = Len(lower) \/ ~IsWordChar(lower[j + 1]))
    IN  {SubSeq(lower, i, j) : <<i, j>> \in
            {ij \in (DOMAIN lower) \X (DOMAIN lower) :
                ij[1] <= ij[2] /\ ij[2] - ij[1] + 1 > 2 /\ IsRun(ij[1], ij[2])}}

\* C23: faithfulness(output, context) is |K(output) /\ K(context)| / |K(output)|,
\* and 0 when the output or the context is empty or whitespace-only or
\* K(output) is empty; it lies in [0, 1], and saying a word of the output or
\* of the context once more changes nothing.
C23_FaithfulnessOfKeywordSets ==
    ev_op = "faithfulness" =>
        LET K_output == KeywordSet(ev_output)
            K_context == KeywordSet(ev_context)
        IN  /\ (IsBlank(ev_output) \/ IsBlank(ev_context) \/ K_output = {}) =>
                  ev_score = RatZero
            /\ ~(IsBlank(ev_output) \/ IsBlank(ev_context) \/ K_output = {}) =>
                  ev_score = Rat(Cardinality(K_output \cap K_context),
                                 Cardinality(K_output))
            /\ ~RatLess(ev_score, RatZero)
            /\ ~RatLess(RatOne, ev_score)
            /\ \A k \in DOMAIN Split(ev_output) :
                  faithfulness(ev_output \o <<" ">> \o Split(ev_output)[k], ev_context)
                      = ev_score
            /\ \A k \in DOMAIN Split(ev_context) :
                  faithfulness(ev_output, ev_context \o <<" ">> \o Split(ev_context)[k])
                      = ev_score

\* The output says one keyword twice and another once, the context has only
\* the first: one of the two keywords is found.
C23_Witness ==
    /\ ev_op = "faithfulness"
    /\ Len(PromptEvaluator_tokenize(ev_output)) = 3
    /\ Cardinality(KeywordSet(ev_output)) = 2
    /\ Cardinality(KeywordSet(ev_output) \cap KeywordSet(ev_context)) = 1
    /\ ev_score = Rat(1, 2)

\* A similarity call was made with an empty or whitespace-only argument
BlankSimilarityCall ==
    /\ sim_op \in {"score", "relevance"}
    /\ IsBlank(sim_candidate) \/ IsBlank(sim_reference)

\* C15: the similarity of an empty or whitespace-only candidate or reference
\* is 0.0 and is returned without any vectorization, by the library or by
\* the fallback; for SemanticSimilarity.score and PromptEvaluator.relevance.
C15_BlankShortCircuits ==
    BlankSimilarityCall =>
        sim_result = Similarity("no", ZeroSimilarity, "none")

\* score of a whitespace-only candidate against a text with words, where
\* scikit-learn is missing
C15_Witness ==
    /\ sim_op = "score"
    /\ ~sim_sklearn
    /\ sim_candidate = <<" ">>
    /\ _tokenize(sim_reference) # <<>>
    /\ sim_result.raised = "no"
    /\ sim_result.value = ZeroSimilarity
    /\ sim_result.vectorized = "none"

\* topic occurs in output when case is ignored
OccursIgnoringCase(topic, output) ==
    \E k \in 0..(Len(output) - Len(topic)) :
        \A j \in 1..Len(topic) : LowerChar(topic[j]) = LowerChar(output[k + j])

TopicsFound ==
    Cardinality({i \in DOMAIN cp_topics : OccursIgnoringCase(cp_topics[i], cp_output)})

\* C16: completeness is 1.0 for an empty topic list and otherwise the number
\* of list entries that occur in the output, case ignored, over the length
\* of the list, a value in [0, 1]; "The return policy is 30 days." with
\* topics return, days, electronics, receipt gives 0.5.
C16_FractionOfTopics ==
    cp_op = "completeness" =>
        /\ cp_topics = <<>> => cp_score = RatOne
        /\ cp_topics # <<>> => cp_score = Rat(TopicsFound, Len(cp_topics))
        /\ ~RatLess(cp_score, RatZero) /\ ~RatLess(RatOne, cp_score)
        /\ (cp_output = ReturnPolicyOutput /\ cp_topics = ReturnPolicyTopics)
              => cp_score = Rat(1, 2)

C16_Witness ==
    /\ cp_op = "completeness"
    /\ cp_output = ReturnPolicyOutput
    /\ cp_topics = ReturnPolicyTopics
    /\ TopicsFound = 2
    /\ cp_score = Rat(1, 2)

\* the weight of a metric in a call of evaluate, in tenths: the caller's,
\* or the default when no mapping is given, the mapping is empty or it lacks
\* the metric
WeightOf(metric) ==
    IF el_args.weights.kind = "None" THEN DefaultWeights[metric]
    ELSE IF DOMAIN el_args.weights.value = {} THEN DefaultWeights[metric]
    ELSE IF metric \notin DOMAIN el_args.weights.value THEN DefaultWeights[metric]
    ELSE el_args.weights.value[metric]

NoTopicsGiven ==
    \/ el_args.expected_topics.kind = "None"
    \/ el_args.expected_topics.value = <<>>

\* the three metrics of a call of evaluate before rounding, in units of 10^-7
FaithfulnessE7 ==
    IF el_args.context = <<>> THEN 0
    ELSE RatE7(faithfulness(el_args.output, el_args.context))

RelevanceE7 ==
    IF el_args.query = <<>> THEN 0
    ELSE CosineE7(relevance(el_args.output, el_args.query).value)

CompletenessE7 ==
    IF NoTopicsGiven THEN E7
    ELSE RatE7(completeness(el_args.output, el_args.expected_topics.value))

\* C24: evaluate returns a result for every input, the empty ones included;
\* faithfulness is 0 without a context, relevance 0 without a query and
\* completeness 1 without topics; overall is the sum of the three metrics
\* weighted by the caller's weights, or by the defaults 0.4, 0.4 and 0.2 for
\* a mapping that is absent, empty or lacks the metric; the four reported
\* values are rounded to four places (so overall differs from the weighted
\* sum of the reported metrics by no more than the roundings allow); with the
\* default weights overall lies in [0, 1].
C24_WeightedOverall ==
    el_op = "evaluate" =>
        LET weighted == WeightOf("faithfulness") * FaithfulnessE7
                        + WeightOf("relevance") * RelevanceE7
                        + WeightOf("completeness") * CompletenessE7
            reported == WeightOf("faithfulness") * el_result.faithfulness
                        + WeightOf("relevance") * el_result.relevance
                        + WeightOf("completeness") * el_result.completeness
            weights == WeightOf("faithfulness") + WeightOf("relevance")
                       + WeightOf("completeness")
        IN  /\ DOMAIN el_result = {"faithfulness", "relevance", "completeness", "overall"}
            /\ el_result.faithfulness = RoundDiv(FaithfulnessE7, 1000)
            /\ el_result.relevance = RoundDiv(RelevanceE7, 1000)
            /\ el_result.completeness = RoundDiv(CompletenessE7, 1000)
            /\ el_result.overall = RoundDiv(weighted, E4)
            /\ 2 * Abs(10 * el_result.overall - reported) <= 10 + weights
            /\ el_args.context = <<>> => el_result.faithfulness = 0
            /\ el_args.query = <<>> => el_result.relevance = 0
            /\ NoTopicsGiven => el_result.completeness = E4
            /\ (el_args.weights.kind = "None" \/ el_args.weights.value = EmptyDict) =>
                  (0 <= el_result.overall /\ el_result.overall <= E4)

\* evaluate was called with a weights mapping that has only the faithfulness
\* weight, 1.0, on an output that is partly faithful, partly relevant and
\* partly complete: relevance and completeness enter with 0.4 and 0.2.
C24_Witness ==
    /\ el_op = "evaluate"
    /\ el_args.weights.kind = "value"
    /\ DOMAIN el_args.weights.value = {"faithfulness"}
    /\ 0 < el_result.faithfulness /\ el_result.faithfulness < E4
    /\ 0 < el_result.relevance /\ el_result.relevance < E4
    /\ 0 < el_result.completeness /\ el_result.completeness < E4
    /\ el_result.overall > el_result.faithfulness

----------------------------------------------------------------------------
(* Statements about lookups by key *)

UnknownKeyLookup == lk_call.unknown

RaisingLookups ==
    {<<"PromptVersionManager", "rollback">>, <<"PromptVersionManager", "diff">>,
     <<"TemplateRegistry", "get">>, <<"TemplateRegistry", "get_builtin">>}

NoneLookups ==
    {<<"PromptVersionManager", "get_version">>, <<"PatternLibrary", "get">>,
     <<"CategoryRegistry", "get">>}

\* C4 as stated: every lookup by a version id, template name, category name
\* or pattern name that is not stored raises; none returns a default.
C4_UnknownKeyRaises ==
    UnknownKeyLookup => lk_result.raised # "no"

\* C4 as the code has it: rollback, diff, TemplateRegistry.get and
\* get_builtin raise KeyError for a key that is not stored; get_version,
\* PatternLibrary.get and CategoryRegistry.get return None, get_examples
\* returns an empty list and record_performance returns False.
C4_UnknownKeyOutcomes ==
    UnknownKeyLookup =>
        LET call == <<lk_call.object, lk_call.method>>
        IN  /\ call \in RaisingLookups => lk_result.raised = KeyError
            /\ call \in NoneLookups =>
                  lk_result.raised = "no" /\ lk_result.kind = "None"
            /\ call = <<"CategoryRegistry", "get_examples">> =>
                  /\ lk_result.raised = "no"
                  /\ lk_result.kind = "list"
                  /\ lk_result.value = <<>>
            /\ call = <<"PromptVersionManager", "record_performance">> =>
                  /\ lk_result.raised = "no"
                  /\ lk_result.kind = "bool"
                  /\ lk_result.value = FALSE
            /\ call \in RaisingLookups \cup NoneLookups
                  \cup {<<"CategoryRegistry", "get_examples">>,
                        <<"PromptVersionManager", "record_performance">>}

\* A manager that holds a version is asked for an id it never issued and
\* returns None.
C4_Witness ==
    /\ UnknownKeyLookup
    /\ lk_call.object = "PromptVersionManager"
    /\ lk_call.method = "get_version"
    /\ lk_call.args = <<"nonexistent">>
    /\ vm_order # <<>>
    /\ lk_result.raised = "no"
    /\ lk_result.kind = "None"

----------------------------------------------------------------------------
(* Statements about PromptVersionManager *)

\* The step is a call of the named PromptVersionManager method
VersionManagerCall(method) ==
    /\ lk_call'.object = "PromptVersionManager"
    /\ lk_call'.method = method

NoDuplicates(s) == \A i, j \in DOMAIN s : s[i] = s[j] => i = j

\* C17: versions are append-only with unique ids. Every create_version
\* yields an id different from all earlier ones; a version once created
\* stays retrievable by get_version with its original template; and
\* list_versions returns the created versions, each once, in creation
\* order, one more after every create_version and the same after any other
\* call.
C17_AppendOnlyUniqueIds ==
    /\ [](/\ NoDuplicates(vm_order)
          /\ Range(vm_order) = DOMAIN vm_versions
          /\ \A k \in DOMAIN vm_order :
                list_versions(vm_versions, vm_order).value[k].version_id = vm_order[k])
    /\ [][/\ \A id \in DOMAIN vm_versions :
                /\ get_version(vm_versions', id).kind = "PromptVersion"
                /\ get_version(vm_versions', id).value.template = vm_versions[id].template
          /\ VersionManagerCall("create_version") =>
                /\ lk_result'.value.version_id \notin DOMAIN vm_versions
                /\ list_versions(vm_versions', vm_order').value
                      = Append(list_versions(vm_versions, vm_order).value,
                               lk_result'.value)
          /\ ~VersionManagerCall("create_version") =>
                Len(vm_order') = Len(vm_order)]_vars

\* Two create_version calls have drawn the same id: the first version is
\* overwritten and the id is listed twice.
C17_Witness ==
    /\ Len(vm_order) = 2
    /\ vm_order[1] = vm_order[2]
    /\ Cardinality(DOMAIN vm_versions) = 1

\* C18: active_version is None exactly until the first create_version;
\* create_version makes the version it returns active; rollback of a stored
\* id makes that version active and returns it, and changes nothing else; a
\* failed rollback and every other call leave the active pointer alone; and
\* the active pointer always names a stored version.
C18_ActiveTracksLatest ==
    /\ [](/\ active_version(vm_versions, vm_active_id).kind = "None"
                <=> vm_order = <<>>
          /\ vm_active_id # "None" => vm_active_id \in DOMAIN vm_versions)
    /\ [][/\ VersionManagerCall("create_version") =>
                /\ vm_active_id' = lk_result'.value.version_id
                /\ active_version(vm_versions', vm_active_id').kind = "PromptVersion"
                /\ active_version(vm_versions', vm_active_id').value = lk_result'.value
          /\ (VersionManagerCall("rollback") /\ lk_result'.raised = "no") =>
                /\ vm_active_id' = lk_call'.args[1]
                /\ lk_result' = ReturnedAs("PromptVersion", vm_versions[lk_call'.args[1]])
                /\ active_version(vm_versions', vm_active_id').kind = "PromptVersion"
                /\ active_version(vm_versions', vm_active_id').value = lk_result'.value
                /\ UNCHANGED <<vm_versions, vm_order, pl_patterns, cr_categories,
                               tr_templates>>
          /\ (VersionManagerCall("rollback") /\ lk_result'.raised # "no") =>
                UNCHANGED storeVars
          /\ ~(VersionManagerCall("create_version") \/ VersionManagerCall("rollback")) =>
                vm_active_id' = vm_active_id]_vars

\* Two versions are stored, and a rollback has made the older one active.
C18_Witness ==
    /\ lk_call.object = "PromptVersionManager"
    /\ lk_call.method = "rollback"
    /\ lk_result.raised = "no"
    /\ Len(vm_order) = 2
    /\ vm_order[1] # vm_order[2]
    /\ vm_active_id = vm_order[1]
    /\ lk_result.value.version_id = vm_order[1]

\* a version id among the arguments of the call that is not stored
UnknownIdAt(k) == lk_call'.args[k] \notin DOMAIN vm_versions

\* C26: a call of rollback, diff or record_performance with a version id
\* that is not stored fails and changes nothing: rollback and diff (with
\* either id unknown) raise KeyError, record_performance returns False, and
\* the versions with their performance maps, the order and the active
\* pointer are as they were before the call.
C26_UnknownIdChangesNothing ==
    [][/\ (VersionManagerCall("rollback") /\ UnknownIdAt(1)) =>
              /\ lk_result' = Raised(KeyError)
              /\ UNCHANGED <<vm_versions, vm_order, vm_active_id>>
       /\ (VersionManagerCall("diff") /\ (UnknownIdAt(1) \/ UnknownIdAt(2))) =>
              /\ lk_result' = Raised(KeyError)
              /\ UNCHANGED <<vm_versions, vm_order, vm_active_id>>
       /\ (VersionManagerCall("record_performance") /\ UnknownIdAt(1)) =>
              /\ lk_result' = ReturnedAs("bool", FALSE)
              /\ UNCHANGED <<vm_versions, vm_order, vm_active_id>>]_vars

\* Two versions are stored, one with recorded performance and the newer one
\* active, and a rollback to an id that is not stored has raised KeyError.
C26_Witness ==
    /\ lk_call.object = "PromptVersionManager"
    /\ lk_call.method = "rollback"
    /\ lk_call.args[1] \notin DOMAIN vm_versions
    /\ lk_result = Raised(KeyError)
    /\ Len(vm_order) = 2
    /\ vm_order[1] # vm_order[2]
    /\ vm_active_id = vm_order[2]
    /\ vm_versions[vm_order[1]].performance # EmptyDict


----------------------------------------------------------------------------
(* Statements about rendering *)

\* the placeholder of a name as the rendering method called writes it:
\* {name} for PromptTemplate.format, {{name}} for PromptPattern.render
PlaceholderOf(op, name) ==
    IF op = "format" THEN <<"{">> \o name \o <<"}">> ELSE Placeholder(name)

\* the names whose placeholder occurs in the template of the call and that
\* the call supplies no value for
Unresolved ==
    {name \in PlaceholderNames :
        /\ Contains(PlaceholderOf(rn_op, name), rn_object.template)
        /\ name \notin Keys(rn_kwargs)}

\* C19: a call of PromptTemplate.format or PromptPattern.render on a
\* template that contains a placeholder without a supplied value raises a
\* ValueError whose message names every such placeholder, and returns no text
\* that still contains one.
C19_MissingPlaceholderRaises ==
    (rn_op \in {"format", "render"} /\ Unresolved # {}) =>
        /\ rn_result.raised = "ValueError"
        /\ Unresolved \subseteq rn_result.names
        /\ ~(/\ rn_result.raised = "no"
             /\ \E name \in Unresolved :
                   Contains(PlaceholderOf(rn_op, name), rn_result.value))

\* render has returned text that still holds the placeholder of a name the
\* pattern does not declare and the call gave no value for
C19_Witness ==
    /\ rn_op = "render"
    /\ rn_result.raised = "no"
    /\ \E name \in Unresolved :
          /\ name \notin Range(rn_object.variables)
          /\ Contains(Placeholder(name), rn_result.value)


----------------------------------------------------------------------------
(* Statements about PromptChain.run *)

\* the names template number k (counted from 1) can be formatted with: those
\* of the initial variables, previous_output after the first template, and
\* step_j_output for the templates before it
NamesAt(k) ==
    Keys(ch_args.initial_vars)
        \cup (IF k > 1 THEN {PreviousOutput} ELSE {})
        \cup {StepOutput(j) : j \in 0..(k - 2)}

\* the value of such a name, given the results so far
ValueAt(k, name) ==
    IF k > 1 /\ name = PreviousOutput THEN ch_results[k - 1]
    ELSE IF \E j \in 0..(k - 2) : name = StepOutput(j)
    THEN ch_results[(CHOOSE j \in 0..(k - 2) : name = StepOutput(j)) + 1]
    ELSE ValueOf(ch_args.initial_vars, name)

\* template number k names a variable that is not available to it
MissingAt(k) ==
    \E name \in PromptTemplate_variables(ch_args.templates[k].template) :
        name \notin NamesAt(k)

\* C27: run formats the templates in list order.  Inside the loop the
\* variables the next template is formatted with are the initial ones plus
\* previous_output, the result before it, and step_j_output, result j, for
\* every earlier step j and no other; each pass appends the formatted
\* template to the results; a run that returns, returns one result per
\* template in order; a run over a template with a missing variable raises
\* and returns nothing; and the caller's mapping is never modified.
C27_ChainRunsInOrder ==
    /\ [](/\ ch_initial_vars = ch_args.initial_vars
          /\ ch_pc = "loop" =>
                /\ Len(ch_results) = ch_i
                /\ Keys(ch_current_vars) = NamesAt(ch_i + 1)
                /\ \A name \in NamesAt(ch_i + 1) :
                      ValueOf(ch_current_vars, name) = ValueAt(ch_i + 1, name)
          /\ (ch_pc = "done" /\ ch_result.raised = "no") =>
                /\ ch_result.value = ch_results
                /\ Len(ch_results) = Len(ch_args.templates)
          /\ (ch_pc = "done" /\ \E k \in 1..Len(ch_args.templates) : MissingAt(k)) =>
                /\ ch_result.raised # "no"
                /\ ch_result.value = <<>>)
    /\ [][ch_i' = ch_i + 1 =>
              /\ SubSeq(ch_results', 1, ch_i) = ch_results
              /\ Rendered(ch_results'[ch_i']) =
                     PromptTemplate_format(ch_args.templates[ch_i'].template,
                                           ch_current_vars)]_vars

\* "{a}x", "{previous_output}y" and "{step_0_output}{previous_output}" have
\* been run with {"a": "1", "previous_output": "p"}: the results are "1x",
\* "1xy" and "1x1xy".
C27_Witness ==
    /\ ch_pc = "done"
    /\ ch_result.raised = "no"
    /\ Keys(ch_initial_vars) = {<<"a">>, PreviousOutput}
    /\ ch_result.value = <<<<"1", "x">>, <<"1", "x", "y">>,
                           <<"1", "x", "1", "x", "y">>>>


----------------------------------------------------------------------------
(* Statements about ABTestRunner *)

\* every call of the scorer on the same text returned the same value
ScorerWasDeterministic ==
    \A j, k \in DOMAIN run_calls :
        run_calls[j].argument = run_calls[k].argument =>
            run_calls[j].value = run_calls[k].value

\* C30: run on an empty inputs list raises ValueError and the scorer is not
\* called; otherwise the scorer is called len(inputs) times on template_a
\* and then len(inputs) times on template_b and on nothing else, the winner
\* is "A", "B" or "no_significant_difference", "A" or "B" only with a p-value
\* below 0.05, and when the scorer returns the same value for the same text
\* the winner is "no_significant_difference" with p-value 1.0 and effect
\* size 0.0, whatever the two templates score.
C30_DeterministicScorerNeverWins ==
    run_op = "run" =>
        LET n == Len(run_args.inputs)
        IN  /\ n = 0 => (run_result = Raised(ValueError) /\ run_calls = <<>>)
            /\ n > 0 =>
                  /\ run_result.raised = "no"
                  /\ Len(run_calls) = 2 * n
                  /\ \A k \in 1..n :
                        /\ run_calls[k].argument = run_args.template_a
                        /\ run_calls[n + k].argument = run_args.template_b
                  /\ \A k \in DOMAIN run_calls :
                        run_calls[k].argument \notin Range(run_args.inputs)
                  /\ run_result.value.winner
                        \in {"A", "B", "no_significant_difference"}
                  /\ run_result.value.winner \in {"A", "B"} =>
                        run_result.value.p_value < 5
                  /\ (run_scorer # "arbitrary" \/ ScorerWasDeterministic) =>
                        /\ run_result.value.winner = "no_significant_difference"
                        /\ run_result.value.p_value = 100
                        /\ run_result.value.effect_size = 0

\* The scorer is len(text), run was called with templates of different
\* lengths and two or more inputs: the means differ, yet no winner is named.
C30_Witness ==
    /\ run_op = "run"
    /\ run_scorer = "simple_scorer"
    /\ Len(run_args.inputs) >= 2
    /\ run_result.raised = "no"
    /\ run_result.value.a_mean # run_result.value.b_mean
    /\ run_result.value.winner = "no_significant_difference"
    /\ run_result.value.p_value = 100


----------------------------------------------------------------------------
(* Statements about BenchmarkRunner *)

\* the pattern names of the summary
SummaryNames == {bm_report.summary[k].pattern_name : k \in DOMAIN bm_report.summary}

\* C28: in the report of run_comparison, whenever the summary is not empty
\* best_pattern is one of its pattern names, one whose avg_overall is the
\* largest of the summary, and the num_tasks of the summary add up to the
\* number of results.
C28_BestPatternInSummary ==
    bm_op = "run_comparison" =>
        /\ bm_report.summary # <<>> =>
              /\ bm_report.best_pattern \in SummaryNames
              /\ \E k \in DOMAIN bm_report.summary :
                    /\ bm_report.summary[k].pattern_name = bm_report.best_pattern
                    /\ \A j \in DOMAIN bm_report.summary :
                          bm_report.summary[j].avg_overall
                              <= bm_report.summary[k].avg_overall
        /\ SumSeq([k \in DOMAIN bm_report.summary |-> bm_report.summary[k].num_tasks])
               = Len(bm_report.results)

\* A result was benchmarked and every average overall score is 0.0: the
\* summary has entries, and best_pattern is the empty string.
C28_Witness ==
    /\ bm_op = "run_comparison"
    /\ bm_report.summary # <<>>
    /\ bm_report.results # <<>>
    /\ bm_report.best_pattern = ""
    /\ \A k \in DOMAIN bm_report.summary : bm_report.summary[k].avg_overall = 0

========================================================================
